---- MODULE Spec2Model ----
(***************************************************************************)
(* First-order masked Romulus-N / Romulus-M / Romulus-T (ARMv7-M).          *)
(*                                                                         *)
(* The AEAD cores (romulus_n.h, api.h) and the shared-API wrappers          *)
(* (part_000 Romulus-M, part_002 Romulus-T) are modelled one basic block   *)
(* per action.  Buffers are byte arrays (functions 0..n-1 -> 0..255), a    *)
(* 32-bit word is a vector of 32 bits (little-endian view of 4 bytes).     *)
(*                                                                         *)
(* The tweakable block cipher is used by the modes as a black box: the     *)
(* tables written by the tweakey schedules are represented by the tweakey  *)
(* material they were computed from, and skinny128_384_plus is a fixed     *)
(* deterministic mixing function of the unmasked state and the unmasked    *)
(* tweakey, re-masked with a mask derived from the input masks.            *)
(***************************************************************************)
EXTENDS Integers, Sequences, FiniteSets, TLC

\* ------------------------------------------------------------------ bounds
MaxBlocks == 2
MaxSeed   == 2

\* --------------------------------------------------------------- constants
ENCRYPT_MODE == 0
DECRYPT_MODE == 1
TAGBYTES     == 16
KEYBYTES     == 16
BLOCKBYTES   == 16
TWEAKEYBYTES == 16
SKINNY128_384_ROUNDS == 40
TKPERMORDER == 16

Byte      == 0..255
Blk       == 0..(BLOCKBYTES - 1)

\* ------------------------------------------------------- C integer operators
RECURSIVE BitXor(_, _)
BitXor(a, b) ==
    IF a = 0 THEN b
    ELSE IF b = 0 THEN a
    ELSE ((a + b) % 2) + 2 * BitXor(a \div 2, b \div 2)

RECURSIVE BitAnd(_, _)
BitAnd(a, b) ==
    IF a = 0 \/ b = 0 THEN 0
    ELSE ((a % 2) * (b % 2)) + 2 * BitAnd(a \div 2, b \div 2)

RECURSIVE BitOr(_, _)
BitOr(a, b) ==
    IF a = 0 THEN b
    ELSE IF b = 0 THEN a
    ELSE (IF a % 2 = 1 \/ b % 2 = 1 THEN 1 ELSE 0) + 2 * BitOr(a \div 2, b \div 2)

Pow2(n) == CASE n = 0 -> 1 [] n = 1 -> 2 [] n = 2 -> 4 [] n = 3 -> 8
             [] n = 4 -> 16 [] n = 5 -> 32 [] n = 6 -> 64 [] n = 7 -> 128

\* the function f with every value computed (TLC applies a function
\* constructor lazily, element by element, each time it is read)
Mat(f) == f @@ f

\* (uint8_t) truncation of an int expression
U8(x) == x % 256

\* uint32_t values: bit n of the word, n = 0 the least significant
WBits == 0..31
\* ((uint32_t*)(p))[j] on a little-endian core
LoadWord(p, j) == Mat([n \in WBits |-> (p[4 * j + (n \div 8)] \div Pow2(n % 8)) % 2])
ByteOfWord(w, j) ==
    w[8*j] + 2*w[8*j+1] + 4*w[8*j+2] + 8*w[8*j+3]
    + 16*w[8*j+4] + 32*w[8*j+5] + 64*w[8*j+6] + 128*w[8*j+7]
\* ((uint32_t*)(p))[j] = w
StoreWord(p, j, w) ==
    Mat([i \in DOMAIN p |-> IF i \div 4 = j THEN ByteOfWord(w, i % 4) ELSE p[i]])
Lit4(b0, b1, b2, b3) ==
    [i \in 0..3 |-> IF i = 0 THEN b0 ELSE IF i = 1 THEN b1 ELSE IF i = 2 THEN b2 ELSE b3]
\* a 32-bit literal, given by its bytes from the least significant one
WordConst(b0, b1, b2, b3) == LoadWord(Lit4(b0, b1, b2, b3), 0)
WXor(a, b) == Mat([n \in WBits |-> (a[n] + b[n]) % 2])
WAnd(a, b) == Mat([n \in WBits |-> a[n] * b[n]])
WOr(a, b)  == Mat([n \in WBits |-> IF a[n] + b[n] > 0 THEN 1 ELSE 0])
WShl(a, s) == Mat([n \in WBits |-> IF n >= s THEN a[n - s] ELSE 0])
WShr(a, s) == Mat([n \in WBits |-> IF n + s <= 31 THEN a[n + s] ELSE 0])

\* ------------------------------------------------------------ romulus_n.h
ZeroBlock == Mat([i \in Blk |-> 0])

zeroize(buf, off, buflen) ==
    Mat([i \in DOMAIN buf |-> IF i >= off /\ i < off + buflen THEN 0 ELSE buf[i]])

copy(dest, src, srcoff, srclen) ==
    Mat([i \in DOMAIN dest |-> IF i < srclen THEN src[srcoff + i] ELSE dest[i]])

\* SET_DOMAIN storing to the first byte of tk1
SET_DOMAIN_WrongByte(tk1, domain) == [tk1 EXCEPT ![0] = domain]

SET_DOMAIN(tk1, domain) == [tk1 EXCEPT ![7] = domain]

GWord(tmp) ==
    WXor(WAnd(WShr(tmp, 1), WordConst(127, 127, 127, 127)),
         WAnd(WXor(tmp, WShl(tmp, 7)), WordConst(128, 128, 128, 128)))

\* G(x, y): the block written to x
G(y) ==
    LET x0 == StoreWord(y,  0, GWord(LoadWord(y, 0)))
        x1 == StoreWord(x0, 1, GWord(LoadWord(y, 1)))
        x2 == StoreWord(x1, 2, GWord(LoadWord(y, 2)))
    IN  StoreWord(x2, 3, GWord(LoadWord(y, 3)))

\* the condition of UPDATE_CTR's branch: (tmp >> 23) & 0x01
CtrFeedback(tk1) ==
    WAnd(WShr(LoadWord(tk1, 1), 23), WordConst(1, 0, 0, 0)) # WordConst(0, 0, 0, 0)

\* UPDATE_CTR whose shifted high word is not masked to its low three bytes
UPDATE_CTR_NoMask(tk1) ==
    LET tmp == LoadWord(tk1, 1)
        w0  == LoadWord(tk1, 0)
        a1  == WShl(tmp, 1)
        a2  == WOr(a1, WShr(w0, 31))
        a3  == WOr(a2, WAnd(tmp, WordConst(0, 0, 0, 255)))
        b1  == WShl(w0, 1)
        b2  == IF CtrFeedback(tk1) THEN WXor(b1, WordConst(149, 0, 0, 0)) ELSE b1
    IN  StoreWord(StoreWord(tk1, 1, a3), 0, b2)

UPDATE_CTR(tk1) ==
    LET tmp == LoadWord(tk1, 1)
        w0  == LoadWord(tk1, 0)
        a1  == WAnd(WShl(tmp, 1), WordConst(255, 255, 255, 0))
        a2  == WOr(a1, WShr(w0, 31))
        a3  == WOr(a2, WAnd(tmp, WordConst(0, 0, 0, 255)))
        b1  == WShl(w0, 1)
        b2  == IF CtrFeedback(tk1) THEN WXor(b1, WordConst(149, 0, 0, 0)) ELSE b1
    IN  StoreWord(StoreWord(tk1, 1, a3), 0, b2)

\* XOR_BLOCK(x, y, z): the block written to x
XOR_BLOCK(y, z) ==
    LET x0 == StoreWord(ZeroBlock, 0, WXor(LoadWord(y, 0), LoadWord(z, 0)))
        x1 == StoreWord(x0, 1, WXor(LoadWord(y, 1), LoadWord(z, 1)))
        x2 == StoreWord(x1, 2, WXor(LoadWord(y, 2), LoadWord(z, 2)))
    IN  StoreWord(x2, 3, WXor(LoadWord(y, 3), LoadWord(z, 3)))

\* RHO(x, x_m, y, z, tmp).  y (ciphertext out) and z (plaintext in) are blocks
\* of the caller's buffers; with aliased they are one and the same block, so a
\* store to y is seen by every later load of z.  Result: the final x and y.
RHO(x, x_m, z, aliased) ==
    LET tmp1 == G(x)
        y1   == XOR_BLOCK(tmp1, z)
        z1   == IF aliased THEN y1 ELSE z
        tmp2 == G(x_m)
        y2   == XOR_BLOCK(tmp2, y1)
        z2   == IF aliased THEN y2 ELSE z1
        xn   == XOR_BLOCK(x, z2)
    IN  [x |-> xn, y |-> y2]

\* RHO_INV(x, x_m, y, z, tmp).  y is the ciphertext block read, z the plaintext
\* block written; with aliased they are one and the same block.  Result: the
\* final x, z and y.
\* RHO_INV that leaves G(x_m) out of the block it writes
RHO_INV_OneShare(x, x_m, y, aliased) ==
    LET z1 == XOR_BLOCK(G(x), y)
    IN  [x |-> XOR_BLOCK(x, z1), z |-> z1, y |-> IF aliased THEN z1 ELSE y]

\* RHO_INV that updates x with the block it read, as RHO does
RHO_INV_StateFromInput(x, x_m, y, aliased) ==
    LET z2 == XOR_BLOCK(G(x_m), XOR_BLOCK(G(x), y))
    IN  [x |-> XOR_BLOCK(x, y), z |-> z2, y |-> IF aliased THEN z2 ELSE y]

RHO_INV(x, x_m, y, aliased) ==
    LET tmp1 == G(x)
        z1   == XOR_BLOCK(tmp1, y)
        tmp2 == G(x_m)
        z2   == XOR_BLOCK(tmp2, z1)
        y2   == IF aliased THEN z2 ELSE y
        xn   == XOR_BLOCK(x, z2)
    IN  [x |-> xn, z |-> z2, y |-> y2]

\* in[i] ^ (s >> 1) ^ (s & 0x80) ^ (s << 7), stored to a uint8_t
GByteXor(inb, s) ==
    U8(BitXor(BitXor(BitXor(inb, s \div 2), BitAnd(s, 128)), s * 128))

\* The byte loops of the last partial block.  Result: out bytes 0..inlen-1 and
\* the state share after the loop.  feed_in: state[i] ^= in[i] (the saved tmp),
\* otherwise state[i] ^= out[i].
PartialBlock(state, state_m, inb, inlen, feed_in) ==
    LET o == Mat([i \in 0..(inlen - 1) |->
                    BitXor(GByteXor(inb[i], state[i]), GByteXor(0, state_m[i]))])
    IN  [out   |-> o,
         state |-> Mat([i \in Blk |->
                          IF i < inlen
                          THEN BitXor(state[i], IF feed_in THEN inb[i] ELSE o[i])
                          ELSE state[i]])]

\* ------------------------------------------------------------- skinny128.h
NoTable == [unset |-> TRUE]

tks_perm_1(tk_1) == [tk1 |-> tk_1]
tks_lfsr_23(tk_2, tk_3) == [tk2 |-> tk_2, tk3 |-> tk_3]
tks_lfsr_3(tk_3) == [tk3 |-> tk_3]

\* the TK1 schedule run on tk1 without its domain byte
tk_schedule_1_NoDomain(tk_1) == tks_perm_1([tk_1 EXCEPT ![7] = 0])

tk_schedule_1(tk_1) == tks_perm_1(tk_1)

\* tk_schedule_23 with the nonce and the key share in each other's place
tk_schedule_23_Swapped(tk_2, tk_3, tk_3m) ==
    [rtk_23 |-> tks_lfsr_23(tk_3, tk_2), rtk_3m |-> tks_lfsr_3(tk_3m)]

tk_schedule_23(tk_2, tk_3, tk_3m) ==
    [rtk_23 |-> tks_lfsr_23(tk_2, tk_3), rtk_3m |-> tks_lfsr_3(tk_3m)]

tk_schedule_123(tk_1, tk_2, tk_3, tk_3m) ==
    [rtk_1  |-> tks_perm_1(tk_1),
     rtk_23 |-> tks_lfsr_23(tk_2, tk_3),
     rtk_3m |-> tks_lfsr_3(tk_3m)]

\* The value the cipher computes on the unmasked block x under the unmasked
\* tweakey (t1, t2, key).
CipherValue(x, t1, t2, key) ==
    Mat([i \in Blk |->
        (3 * x[i] + 7 * x[(i + 1) % 16] + x[(i + 5) % 16]
         + 11 * key[i] + key[(i + 3) % 16]
         + 13 * t2[i] + t2[(i + 7) % 16]
         + 17 * t1[i % 8] + 5 * t1[(i + 3) % 8] + t1[8 + (i % 8)]
         + i) % 256])

skinny128_384_plus(ptext, ptext_m, rtk_23, rtk_3m, rtk1) ==
    LET x   == Mat([i \in Blk |-> BitXor(ptext[i], ptext_m[i])])
        key == Mat([i \in Blk |-> BitXor(rtk_23.tk3[i], rtk_3m.tk3[i])])
        e   == CipherValue(x, rtk1.tk1, rtk_23.tk2, key)
        cm  == Mat([i \in Blk |-> (5 * ptext_m[i] + rtk_3m.tk3[i] + 1) % 256])
    IN  [ctext |-> Mat([i \in Blk |-> BitXor(e[i], cm[i])]), ctext_m |-> cm]

\* ------------------------------------------------------------------- state
VARIABLES
    variant,        \* "N" | "M" | "T": which implementation is called
    mode,           \* ENCRYPT_MODE | DECRYPT_MODE of the running call
    seed, mseed,    \* which byte strings / which randombytes output the caller uses
    tamper,         \* what the caller did to the ciphertext before decrypting
    replayed,       \* the running call repeats the previous one on other bytes
    adlen, mlen, clen,      \* length arguments of the call
    ads, npubs, ks,         \* AD bytes, nonce, key shares handed to the call
    ms, cs,                 \* message buffer, ciphertext || tag buffer
    clen_out, mlen_out, ret,\* *clen, *mlen, return value: <<v>>, <<>> while unset
    pc, cont,               \* next block to run, calls left in the wrapper
    k, k_m, npub, npub_m,   \* wrapper locals
    state, state_m, tk1, rtk_23, rtk_3m, rtk1,
    a_off, a_len,           \* process_ad: ad pointer offset, adlen left
    m_off, m_len,           \* romulusm_process_ad: m pointer offset, mlen left
    io_off, inlen,          \* process_msg: in/out pointer offset, inlen left
    final_domain, vtmp,     \* romulusm_process_ad local, verify_tag result
    trace,          \* branches taken and calls made by the running call
    calls,          \* cipher calls of the running call: TK1 and unmasked input
    prev_trace, enc_calls, enc_cs, plain,   \* kept from the previous call
    aliased, pre,   \* one call of RHO / RHO_INV: out == in, the values before it
    regs            \* registers of the masked cipher's macros

sessVars == <<variant, seed, mseed, tamper, replayed, prev_trace, enc_calls, enc_cs, plain,
             aliased, pre, regs>>
argVars  == <<mode, adlen, mlen, clen, ads, npubs, ks>>
outVars  == <<clen_out, mlen_out, ret>>
bufVars  == <<ms, cs>>
keyVars  == <<k, k_m, npub, npub_m>>
tabVars  == <<rtk_23, rtk_3m, rtk1>>
coreVars == <<state, state_m, tk1>>
adVars   == <<a_off, a_len, m_off, m_len, final_domain>>
msgVars  == <<io_off, inlen>>
vars == <<sessVars, argVars, outVars, bufVars, keyVars, tabVars, coreVars,
          adVars, msgVars, vtmp, pc, cont, trace, calls>>

\* ------------------------------------------------------------ environment
Seeds    == 1..MaxSeed
Rems     == {0, 15}
Lengths  == {BLOCKBYTES * b + r : b \in 0..MaxBlocks, r \in Rems}
Variants == {"N", "M", "T"}
Tampers  == {"intact", "tag", "short"}

\* the n bytes the caller holds under (seed, salt)
Data(sd, salt, n) == Mat([i \in 0..(n - 1) |-> (89 * sd + 53 * salt + 37 * i + 11) % 256])
KeyBytes(sd)    == Data(sd, 1, KEYBYTES)
NonceBytes(sd)  == Data(sd, 3, BLOCKBYTES)
AdBytes(sd, n)  == Data(sd, 5, n)
MsgBytes(sd, n) == Data(sd, 6, n)
Garbage(sd, n)  == Data(sd, 8, n)      \* what an output buffer holds before a call
RandomBytes(sd, salt) == Data(sd + 100, salt, KEYBYTES)     \* one randombytes fill

None == "none"
NoValue == <<>>         \* *clen, *mlen, the return value: not written yet
Unset == [i \in {} |-> 0]

Blockat(buf, off) == Mat([i \in Blk |-> buf[off + i]])
Blockat0(buf, off, n) == Mat([i \in 0..(n - 1) |-> buf[off + i]])
WriteAt(buf, off, blk, n) ==
    Mat([i \in DOMAIN buf |-> IF i >= off /\ i < off + n THEN blk[i - off] ELSE buf[i]])
XorBytes(a, b) == Mat([i \in DOMAIN a |-> BitXor(a[i], b[i])])

\* masked word array of 4 elements with 2 shares, as generate_shares_* forms it
\* from the secret bytes and the 4 randombytes fills (4 bytes each)
SplitShares(secret, rnd) ==
    Mat([i \in 0..3 |-> [shares |-> <<WXor(LoadWord(rnd, i), LoadWord(secret, i)),
                                      LoadWord(rnd, i)>>]])

\* shares_to_bytearr_2 storing the most significant byte of a word first
shares_to_bytearr_2_BigEndian(xs) ==
    [bytearr_0 |-> Mat([i \in Blk |-> ByteOfWord(xs[i \div 4].shares[1], 3 - (i % 4))]),
     bytearr_1 |-> Mat([i \in Blk |-> ByteOfWord(xs[i \div 4].shares[2], 3 - (i % 4))])]

shares_to_bytearr_2(xs) ==
    [bytearr_0 |-> Mat([i \in Blk |-> ByteOfWord(xs[i \div 4].shares[1], i % 4)]),
     bytearr_1 |-> Mat([i \in Blk |-> ByteOfWord(xs[i \div 4].shares[2], i % 4)])]

Init ==
    /\ variant = None /\ mode = ENCRYPT_MODE /\ seed = 0 /\ mseed = 0
    /\ tamper = None /\ replayed = FALSE
    /\ adlen = 0 /\ mlen = 0 /\ clen = 0
    /\ ads = Unset /\ npubs = Unset /\ ks = Unset
    /\ ms = Unset /\ cs = Unset
    /\ clen_out = NoValue /\ mlen_out = NoValue /\ ret = NoValue
    /\ pc = "idle" /\ cont = <<>>
    /\ k = Unset /\ k_m = Unset /\ npub = Unset /\ npub_m = Unset
    /\ state = Unset /\ state_m = Unset /\ tk1 = Unset
    /\ rtk_23 = NoTable /\ rtk_3m = NoTable /\ rtk1 = NoTable
    /\ a_off = 0 /\ a_len = 0 /\ m_off = 0 /\ m_len = 0
    /\ io_off = 0 /\ inlen = 0 /\ final_domain = 0 /\ vtmp = NoValue
    /\ trace = <<>> /\ calls = <<>>
    /\ prev_trace = <<>> /\ enc_calls = <<>> /\ enc_cs = Unset /\ plain = Unset
    /\ aliased = FALSE /\ pre = NoValue /\ regs = NoValue

\* locals of a fresh call frame
FreshFrame ==
    /\ k' = Unset /\ k_m' = Unset /\ npub' = Unset /\ npub_m' = Unset
    /\ state' = Unset /\ state_m' = Unset /\ tk1' = Unset
    /\ rtk_23' = NoTable /\ rtk_3m' = NoTable /\ rtk1' = NoTable
    /\ a_off' = 0 /\ a_len' = 0 /\ m_off' = 0 /\ m_len' = 0
    /\ io_off' = 0 /\ inlen' = 0 /\ final_domain' = 0 /\ vtmp' = NoValue
    /\ trace' = <<>> /\ calls' = <<>> /\ cont' = <<>>
    /\ clen_out' = NoValue /\ mlen_out' = NoValue /\ ret' = NoValue

Entry(v, md) == (IF v = "N" THEN "n" ELSE IF v = "M" THEN "m" ELSE "t")
                \o (IF md = ENCRYPT_MODE THEN "_enc" ELSE "_dec")

\* the nonce as the wrapper of variant v receives it
NonceArg(v, sd, rsd) ==
    IF v = "T" THEN SplitShares(NonceBytes(sd), RandomBytes(rsd, 4)) ELSE NonceBytes(sd)

\* The caller encrypts: adlen bytes of AD and mlen bytes of message.
Encrypt(v, al, ml) ==
    /\ pc = "idle"
    /\ variant' = v /\ mode' = ENCRYPT_MODE /\ seed' = 1 /\ mseed' = 1
    /\ tamper' = None /\ replayed' = FALSE
    /\ adlen' = al /\ mlen' = ml /\ clen' = 0
    /\ ads' = AdBytes(1, al)
    /\ npubs' = NonceArg(v, 1, 1)
    /\ ks' = SplitShares(KeyBytes(1), RandomBytes(1, 2))
    /\ ms' = MsgBytes(1, ml)
    /\ cs' = Garbage(1, ml + TAGBYTES)
    /\ plain' = MsgBytes(1, ml)
    /\ pc' = Entry(v, ENCRYPT_MODE)
    /\ FreshFrame
    /\ UNCHANGED <<prev_trace, enc_calls, enc_cs, aliased, pre, regs>>

\* what the caller hands to decryption after tampering with the n bytes of
\* ciphertext || tag
Tampered(c, n, tp) ==
    CASE tp = "intact" -> c
      [] tp = "tag"   -> [c EXCEPT ![n - 1] = BitXor(c[n - 1], 128)]
      [] tp = "short" -> Mat([i \in 0..(TAGBYTES - 2) |-> c[i]])
TamperedLen(n, tp) == IF tp = "short" THEN TAGBYTES - 1 ELSE n

\* The caller decrypts what the encryption that just returned produced, under
\* the same key, nonce and AD; rs picks the randomness of the shares: the same
\* shares as the encryption had (rs = mseed), or fresh ones.
Decrypt(tp, rs) ==
    /\ pc = "done" /\ mode = ENCRYPT_MODE /\ ~replayed
    /\ tp = "short" => variant # "N"
    /\ mode' = DECRYPT_MODE /\ tamper' = tp /\ mseed' = rs
    /\ clen' = TamperedLen(mlen + TAGBYTES, tp)
    /\ cs' = Tampered(cs, mlen + TAGBYTES, tp)
    /\ ms' = Garbage(seed + 1, mlen)
    /\ npubs' = NonceArg(variant, seed, rs)
    /\ ks' = SplitShares(KeyBytes(seed), RandomBytes(rs, 2))
    /\ enc_calls' = calls /\ enc_cs' = cs
    /\ pc' = Entry(variant, DECRYPT_MODE)
    /\ FreshFrame
    /\ UNCHANGED <<variant, seed, replayed, prev_trace, plain, adlen, mlen, ads,
                   aliased, pre, regs>>

\* The caller repeats the call that just returned with the same lengths and
\* mode on other bytes: other key, nonce, AD, message or ciphertext, randomness.
Replay(sd) ==
    /\ pc = "done" /\ ~replayed /\ tamper \in {None, "intact"}
    /\ sd # seed
    /\ replayed' = TRUE /\ prev_trace' = trace
    /\ seed' = sd /\ mseed' = sd
    /\ ads' = AdBytes(sd, adlen)
    /\ npubs' = NonceArg(variant, sd, sd)
    /\ ks' = SplitShares(KeyBytes(sd), RandomBytes(sd, 2))
    /\ IF mode = ENCRYPT_MODE
       THEN /\ ms' = MsgBytes(sd, mlen)
            /\ cs' = Garbage(sd, mlen + TAGBYTES)
            /\ plain' = MsgBytes(sd, mlen)
       ELSE /\ ms' = Garbage(sd + 1, mlen)
            /\ cs' = Data(sd, 7, clen)
            /\ UNCHANGED plain
    /\ pc' = Entry(variant, mode)
    /\ FreshFrame
    /\ UNCHANGED <<variant, mode, tamper, adlen, mlen, clen, enc_calls, enc_cs,
                   aliased, pre, regs>>

\* ------------------------------------------------------- shared step pieces
Unmask(a, b) == XorBytes(a, b)

\* return from a core function to the wrapper's next call
Return == pc' = Head(cont) /\ cont' = Tail(cont)
Goto(l) == pc' = l /\ UNCHANGED cont

Log(evs) == trace' = trace \o evs

CtrEv(t) == IF CtrFeedback(t) THEN "UPDATE_CTR+0x95" ELSE "UPDATE_CTR"

\* tk_schedule_123(rtk, rtk_m, rtk1, t1, tk2, k, k_m) followed by
\* skinny128_384_plus(state, state_m, st, state_m, rtk, rtk_m, rtk1)
Cipher123(st, t1, tk2, ph) ==
    LET t == tk_schedule_123(t1, tk2, k, k_m)
        c == skinny128_384_plus(st, state_m, t.rtk_23, t.rtk_3m, t.rtk_1)
    IN  /\ state' = c.ctext /\ state_m' = c.ctext_m
        /\ rtk_23' = t.rtk_23 /\ rtk_3m' = t.rtk_3m /\ rtk1' = t.rtk_1
        /\ calls' = Append(calls, [tk1 |-> t1, x |-> Unmask(st, state_m), ph |-> ph])

\* tk_schedule_1(rtk1, t1) followed by
\* skinny128_384_plus(state, state_m, st, sm, rtk, rtk_m, rtk1)
Cipher1(st, sm, t1, ph) ==
    LET r1 == tk_schedule_1(t1)
        c  == skinny128_384_plus(st, sm, rtk_23, rtk_3m, r1)
    IN  /\ state' = c.ctext /\ state_m' = c.ctext_m
        /\ rtk1' = r1 /\ UNCHANGED <<rtk_23, rtk_3m>>
        /\ calls' = Append(calls, [tk1 |-> t1, x |-> Unmask(st, sm), ph |-> ph])

\* state[i] ^= ad[i] for i < n; state[15] ^= n
AbsorbPartial(st, buf, off, n) ==
    Mat([i \in Blk |-> IF i < n THEN BitXor(st[i], buf[off + i])
                       ELSE IF i = 15 THEN BitXor(st[i], U8(n)) ELSE st[i]])

\* the pad buffer zero-filled to its end, the length byte left out
PadBlock_NoLength(src, off, n) ==
    zeroize(copy([i \in Blk |-> None], src, off, n), n, BLOCKBYTES - n)

\* copy(pad, src + off, n); zeroize(pad + n, 15 - n); pad[15] = n
PadBlock(src, off, n) ==
    [zeroize(copy([i \in Blk |-> None], src, off, n), n, 15 - n) EXCEPT ![15] = U8(n)]

\* ------------------------------------------------------------- Romulus-N
\* the calls of one Romulus-N encryption / decryption on the core functions
N_encrypt_calls == <<"n_init", "n_ad", "n_msg", "n_gen_tag", "n_ret">>
N_decrypt_calls == <<"n_init", "n_ad", "n_msg", "n_verify_tag", "n_ret">>

n_encrypt ==
    /\ pc = "n_enc"
    /\ k' = shares_to_bytearr_2(ks).bytearr_0
    /\ k_m' = shares_to_bytearr_2(ks).bytearr_1
    /\ npub' = npubs
    /\ clen_out' = <<mlen + TAGBYTES>>
    /\ pc' = Head(N_encrypt_calls) /\ cont' = Tail(N_encrypt_calls)
    /\ Log(<<"encrypt">>)
    /\ UNCHANGED <<sessVars, argVars, mlen_out, ret, bufVars, npub_m, tabVars,
                   coreVars, adVars, msgVars, vtmp, calls>>

n_decrypt ==
    /\ pc = "n_dec"
    /\ k' = shares_to_bytearr_2(ks).bytearr_0
    /\ k_m' = shares_to_bytearr_2(ks).bytearr_1
    /\ npub' = npubs
    /\ mlen_out' = <<clen - TAGBYTES>>
    /\ pc' = Head(N_decrypt_calls) /\ cont' = Tail(N_decrypt_calls)
    /\ Log(<<"decrypt">>)
    /\ UNCHANGED <<sessVars, argVars, clen_out, ret, bufVars, npub_m, tabVars,
                   coreVars, adVars, msgVars, vtmp, calls>>

n_return ==
    /\ pc = "n_ret"
    /\ ret' = IF mode = ENCRYPT_MODE THEN <<0>> ELSE vtmp
    /\ pc' = "done"
    /\ UNCHANGED <<sessVars, argVars, clen_out, mlen_out, bufVars, keyVars, tabVars,
                   coreVars, adVars, msgVars, vtmp, cont, trace, calls>>

romulusn_init ==
    /\ pc = "n_init"
    /\ tk1' = zeroize([[i \in Blk |-> None] EXCEPT ![0] = 1], 1, BLOCKBYTES - 1)
    /\ state' = zeroize([i \in Blk |-> None], 0, BLOCKBYTES)
    /\ state_m' = zeroize([i \in Blk |-> None], 0, BLOCKBYTES)
    /\ Return
    /\ Log(<<"init">>)
    /\ UNCHANGED <<sessVars, argVars, outVars, bufVars, keyVars, tabVars,
                   adVars, msgVars, vtmp, calls>>

\* frame of the process_ad blocks: what none of them writes
AdFrame == UNCHANGED <<sessVars, argVars, outVars, bufVars, keyVars, msgVars, vtmp>>

\* romulusn_process_ad, adlen == 0
n_ad_empty ==
    /\ pc = "n_ad" /\ adlen = 0
    /\ LET t1 == SET_DOMAIN(UPDATE_CTR(tk1), 26)
       IN  /\ tk1' = t1
           /\ Cipher123(state, t1, npub, "ad")
           /\ Log(<<"ad:empty", CtrEv(tk1), "tk_schedule_123", "skinny128_384_plus">>)
    /\ Return
    /\ AdFrame /\ UNCHANGED adVars

n_ad_start ==
    /\ pc = "n_ad" /\ adlen # 0
    /\ tk1' = SET_DOMAIN(tk1, 8)
    /\ a_off' = 0 /\ a_len' = adlen
    /\ Goto("n_ad_loop")
    /\ Log(<<"ad:nonempty">>)
    /\ AdFrame /\ UNCHANGED <<state, state_m, tabVars, m_off, m_len, final_domain, calls>>

\* while (adlen > 2*BLOCKBYTES): up to the cipher call
n_ad_double ==
    /\ pc = "n_ad_loop" /\ a_len > 2 * BLOCKBYTES
    /\ LET t1 == UPDATE_CTR(tk1)
       IN  /\ tk1' = t1
           /\ Cipher123(XOR_BLOCK(state, Blockat(ads, a_off)), t1,
                        Blockat(ads, a_off + BLOCKBYTES), "ad")
           /\ Log(<<"ad:loop", CtrEv(tk1), "tk_schedule_123", "skinny128_384_plus">>)
    /\ Goto("n_ad_loop2")
    /\ AdFrame /\ UNCHANGED adVars

\* the loop body without its second UPDATE_CTR
n_ad_double_next_NoCtr ==
    /\ pc = "n_ad_loop2"
    /\ a_off' = a_off + 2 * BLOCKBYTES
    /\ a_len' = a_len - 2 * BLOCKBYTES
    /\ Goto("n_ad_loop")
    /\ Log(<<>>)
    /\ AdFrame /\ UNCHANGED <<tk1, state, state_m, tabVars, m_off, m_len, final_domain, calls>>

\* while (adlen > 2*BLOCKBYTES): after the cipher call
n_ad_double_next ==
    /\ pc = "n_ad_loop2"
    /\ tk1' = UPDATE_CTR(tk1)
    /\ a_off' = a_off + 2 * BLOCKBYTES
    /\ a_len' = a_len - 2 * BLOCKBYTES
    /\ Goto("n_ad_loop")
    /\ Log(<<CtrEv(tk1)>>)
    /\ AdFrame /\ UNCHANGED <<state, state_m, tabVars, m_off, m_len, final_domain, calls>>

\* left-over complete double block, up to the cipher call
n_ad_full_double ==
    /\ pc = "n_ad_loop" /\ a_len = 2 * BLOCKBYTES
    /\ LET t1 == UPDATE_CTR(tk1)
       IN  /\ tk1' = t1
           /\ Cipher123(XOR_BLOCK(state, Blockat(ads, a_off)), t1,
                        Blockat(ads, a_off + BLOCKBYTES), "ad")
           /\ Log(<<"ad:full-double", CtrEv(tk1), "tk_schedule_123",
                    "skinny128_384_plus">>)
    /\ Goto("n_ad_fd2")
    /\ AdFrame /\ UNCHANGED adVars

n_ad_full_double_next ==
    /\ pc = "n_ad_fd2"
    /\ tk1' = SET_DOMAIN(UPDATE_CTR(tk1), 24)
    /\ Goto("n_ad_final")
    /\ Log(<<CtrEv(tk1)>>)
    /\ AdFrame /\ UNCHANGED <<state, state_m, tabVars, adVars, calls>>

\* left-over partial double block, up to the cipher call
n_ad_partial_double ==
    /\ pc = "n_ad_loop" /\ a_len < 2 * BLOCKBYTES /\ a_len > BLOCKBYTES
    /\ LET t1 == UPDATE_CTR(tk1)
           n  == a_len - BLOCKBYTES
       IN  /\ tk1' = t1
           /\ a_len' = n
           /\ Cipher123(XOR_BLOCK(state, Blockat(ads, a_off)), t1,
                        PadBlock(ads, a_off + BLOCKBYTES, n), "ad")
           /\ Log(<<"ad:partial-double", CtrEv(tk1), "tk_schedule_123",
                    "skinny128_384_plus">>)
    /\ Goto("n_ad_pd2")
    /\ AdFrame /\ UNCHANGED <<a_off, m_off, m_len, final_domain>>

n_ad_partial_double_next ==
    /\ pc = "n_ad_pd2"
    /\ tk1' = SET_DOMAIN(UPDATE_CTR(tk1), 26)
    /\ Goto("n_ad_final")
    /\ Log(<<CtrEv(tk1)>>)
    /\ AdFrame /\ UNCHANGED <<state, state_m, tabVars, adVars, calls>>

\* left-over complete single block
n_ad_full_single ==
    /\ pc = "n_ad_loop" /\ a_len = BLOCKBYTES
    /\ tk1' = SET_DOMAIN(UPDATE_CTR(tk1), 24)
    /\ state' = XOR_BLOCK(state, Blockat(ads, a_off))
    /\ Goto("n_ad_final")
    /\ Log(<<"ad:full-single", CtrEv(tk1)>>)
    /\ AdFrame /\ UNCHANGED <<state_m, tabVars, adVars, calls>>

\* left-over partial single block
n_ad_partial_single ==
    /\ pc = "n_ad_loop" /\ a_len < BLOCKBYTES
    /\ tk1' = SET_DOMAIN(UPDATE_CTR(tk1), 26)
    /\ state' = AbsorbPartial(state, ads, a_off, a_len)
    /\ Goto("n_ad_final")
    /\ Log(<<"ad:partial-single", CtrEv(tk1)>>)
    /\ AdFrame /\ UNCHANGED <<state_m, tabVars, adVars, calls>>

\* the nonce call ending romulusn_process_ad
n_ad_final ==
    /\ pc = "n_ad_final"
    /\ Cipher123(state, tk1, npub, "ad")
    /\ Return
    /\ Log(<<"tk_schedule_123", "skinny128_384_plus">>)
    /\ AdFrame /\ UNCHANGED <<tk1, adVars>>

\* the in / out buffers of process_msg: ms and cs by mode
MsgLen == IF mode = ENCRYPT_MODE THEN mlen ELSE clen - TAGBYTES
InBuf  == IF mode = ENCRYPT_MODE THEN ms ELSE cs
WriteOut(off, blk, n) ==
    IF mode = ENCRYPT_MODE
    THEN cs' = WriteAt(cs, off, blk, n) /\ UNCHANGED ms
    ELSE ms' = WriteAt(ms, off, blk, n) /\ UNCHANGED cs

MsgFrame == UNCHANGED <<sessVars, argVars, outVars, keyVars, adVars, vtmp>>

\* romulusn_process_msg: init the 56-bit LFSR counter
n_msg_entry ==
    /\ pc = "n_msg"
    /\ tk1' = zeroize([tk1 EXCEPT ![0] = 1], 1, TWEAKEYBYTES - 1)
    /\ io_off' = 0 /\ inlen' = MsgLen
    /\ rtk1' = NoTable
    /\ Goto("n_msg_br")
    /\ Log(<<"msg">>)
    /\ MsgFrame /\ UNCHANGED <<bufVars, state, state_m, rtk_23, rtk_3m, calls>>

n_msg_empty ==
    /\ pc = "n_msg_br" /\ inlen = 0
    /\ LET t1 == SET_DOMAIN(UPDATE_CTR(tk1), 21)
       IN  /\ tk1' = t1
           /\ Cipher1(state, state_m, t1, "msg")
           /\ Log(<<"msg:empty", CtrEv(tk1), "tk_schedule_1", "skinny128_384_plus">>)
    /\ Return
    /\ MsgFrame /\ UNCHANGED <<bufVars, msgVars>>

\* the non-empty branch without its SET_DOMAIN(tk1, 0x04)
n_msg_start_NoDomain ==
    /\ pc = "n_msg_br" /\ inlen # 0
    /\ Goto("n_msg_loop")
    /\ Log(<<"msg:nonempty">>)
    /\ MsgFrame /\ UNCHANGED <<bufVars, msgVars, coreVars, tabVars, calls>>

n_msg_start ==
    /\ pc = "n_msg_br" /\ inlen # 0
    /\ tk1' = SET_DOMAIN(tk1, 4)
    /\ Goto("n_msg_loop")
    /\ Log(<<"msg:nonempty">>)
    /\ MsgFrame /\ UNCHANGED <<bufVars, msgVars, state, state_m, tabVars, calls>>

\* while (inlen > BLOCKBYTES)
n_msg_block ==
    /\ pc = "n_msg_loop" /\ inlen > BLOCKBYTES
    /\ LET t1 == UPDATE_CTR(tk1)
           r  == IF mode = ENCRYPT_MODE
                 THEN RHO(state, state_m, Blockat(InBuf, io_off), FALSE)
                 ELSE RHO_INV(state, state_m, Blockat(InBuf, io_off), FALSE)
           o  == IF mode = ENCRYPT_MODE THEN r.y ELSE r.z
       IN  /\ WriteOut(io_off, o, BLOCKBYTES)
           /\ tk1' = t1
           /\ Cipher1(r.x, state_m, t1, "msg")
           /\ Log(<<"msg:loop", IF mode = ENCRYPT_MODE THEN "RHO" ELSE "RHO_INV",
                    CtrEv(tk1), "tk_schedule_1", "skinny128_384_plus">>)
    /\ io_off' = io_off + BLOCKBYTES
    /\ inlen' = inlen - BLOCKBYTES
    /\ Goto("n_msg_loop")
    /\ MsgFrame

\* the last block is partial
n_msg_last_partial ==
    /\ pc = "n_msg_loop" /\ inlen < BLOCKBYTES
    /\ LET r == PartialBlock(state, state_m, Blockat0(InBuf, io_off, inlen), inlen,
                             mode = ENCRYPT_MODE)
       IN  /\ WriteOut(io_off, r.out, inlen)
           /\ state' = [r.state EXCEPT ![15] = BitXor(r.state[15], U8(inlen))]
    /\ tk1' = SET_DOMAIN(UPDATE_CTR(tk1), 21)
    /\ Goto("n_msg_final")
    /\ Log(<<CtrEv(tk1), "msg:last-partial",
             IF mode = ENCRYPT_MODE THEN "enc-bytes" ELSE "dec-bytes">>)
    /\ MsgFrame /\ UNCHANGED <<msgVars, state_m, tabVars, calls>>

\* the last block is complete
n_msg_last_full ==
    /\ pc = "n_msg_loop" /\ inlen = BLOCKBYTES
    /\ LET r  == IF mode = ENCRYPT_MODE
                 THEN RHO(state, state_m, Blockat(InBuf, io_off), FALSE)
                 ELSE RHO_INV(state, state_m, Blockat(InBuf, io_off), FALSE)
           o  == IF mode = ENCRYPT_MODE THEN r.y ELSE r.z
       IN  /\ WriteOut(io_off, o, BLOCKBYTES)
           /\ state' = r.x
    /\ tk1' = SET_DOMAIN(UPDATE_CTR(tk1), 20)
    /\ Goto("n_msg_final")
    /\ Log(<<CtrEv(tk1), "msg:last-full",
             IF mode = ENCRYPT_MODE THEN "RHO" ELSE "RHO_INV">>)
    /\ MsgFrame /\ UNCHANGED <<msgVars, state_m, tabVars, calls>>

n_msg_final ==
    /\ pc = "n_msg_final"
    /\ Cipher1(state, state_m, tk1, "msg")
    /\ Return
    /\ Log(<<"tk_schedule_1", "skinny128_384_plus">>)
    /\ MsgFrame /\ UNCHANGED <<bufVars, msgVars, tk1>>

\* generate_tag(c, state, state_m): the shares after G and the 16 bytes written
generate_tag(st, sm) ==
    LET g  == G(st)
        gm == G(sm)
    IN  [state |-> g, state_m |-> gm, c |-> Mat([i \in Blk |-> BitXor(g[i], gm[i])])]

\* a comparison loop that stops one byte early
RECURSIVE VerifyLoop_SkipLast(_, _, _, _, _)
VerifyLoop_SkipLast(i, tmp, g, gm, tag) ==
    IF i < TAGBYTES - 1
    THEN VerifyLoop_SkipLast(i + 1, BitOr(tmp, BitXor(BitXor(g[i], gm[i]), tag[i])),
                             g, gm, tag)
    ELSE [tmp |-> tmp, visited |-> i]

\* a comparison loop that leaves at the first byte that differs
RECURSIVE VerifyLoop_EarlyExit(_, _, _, _, _)
VerifyLoop_EarlyExit(i, tmp, g, gm, tag) ==
    IF i < TAGBYTES /\ tmp = 0
    THEN VerifyLoop_EarlyExit(i + 1, BitOr(tmp, BitXor(BitXor(g[i], gm[i]), tag[i])),
                              g, gm, tag)
    ELSE [tmp |-> tmp, visited |-> i]

\* the loop of verify_tag from index i on: tmp |= state[i] ^ state_m[i] ^ tag[i]
RECURSIVE VerifyLoop(_, _, _, _, _)
VerifyLoop(i, tmp, g, gm, tag) ==
    IF i < TAGBYTES
    THEN VerifyLoop(i + 1, BitOr(tmp, BitXor(BitXor(g[i], gm[i]), tag[i])), g, gm, tag)
    ELSE [tmp |-> tmp, visited |-> i]

\* verify_tag(tag, state, state_m): the shares after G, the value returned and
\* the number of tag bytes the loop visited
verify_tag(tag, st, sm) ==
    LET g  == G(st)
        gm == G(sm)
        l  == VerifyLoop(0, 0, g, gm, tag)
    IN  [state |-> g, state_m |-> gm, tmp |-> l.tmp, visited |-> l.visited]

TagFrame == UNCHANGED <<sessVars, argVars, outVars, keyVars, tabVars, tk1, adVars,
                        msgVars, calls>>

romulusn_generate_tag ==
    /\ pc = "n_gen_tag"
    /\ LET t == generate_tag(state, state_m)
       IN  /\ state' = t.state /\ state_m' = t.state_m
           /\ cs' = WriteAt(cs, mlen, t.c, TAGBYTES)
    /\ Return
    /\ Log(<<"generate_tag">>)
    /\ TagFrame /\ UNCHANGED <<ms, vtmp>>

romulusn_verify_tag ==
    /\ pc = "n_verify_tag"
    /\ LET v == verify_tag(Blockat(cs, clen - TAGBYTES), state, state_m)
       IN  /\ state' = v.state /\ state_m' = v.state_m
           /\ vtmp' = <<v.tmp>>
           /\ Log(<<"verify_tag", ToString(v.visited)>>)
    /\ Return
    /\ TagFrame /\ UNCHANGED <<ms, cs>>

NSteps ==
    \/ n_encrypt \/ n_decrypt \/ n_return \/ romulusn_init
    \/ n_ad_empty \/ n_ad_start \/ n_ad_double \/ n_ad_double_next
    \/ n_ad_full_double \/ n_ad_full_double_next
    \/ n_ad_partial_double \/ n_ad_partial_double_next
    \/ n_ad_full_single \/ n_ad_partial_single \/ n_ad_final
    \/ n_msg_entry \/ n_msg_empty \/ n_msg_start \/ n_msg_block
    \/ n_msg_last_partial \/ n_msg_last_full \/ n_msg_final
    \/ romulusn_generate_tag \/ romulusn_verify_tag

\* ------------------------------------------------------------- Romulus-M
\* final_ad_domain without the bits of the message length
final_ad_domain_AdOnly(al, ml) ==
    LET la == al % (2 * BLOCKBYTES)
    IN  IF al = 0 THEN 2
        ELSE IF la = 0 THEN 8
        ELSE IF la < BLOCKBYTES THEN 2
        ELSE IF la > BLOCKBYTES THEN 10 ELSE 0

\* final_ad_domain returning 0x14, so that 0x30 ^ domain is the message byte 0x24
final_ad_domain_AsMessage(al, ml) == 20

final_ad_domain(al, ml) ==
    LET la == al % (2 * BLOCKBYTES)
        lm == ml % (2 * BLOCKBYTES)
        d1 == IF al = 0 THEN 2
              ELSE IF la = 0 THEN 8
              ELSE IF la < BLOCKBYTES THEN 2
              ELSE IF la > BLOCKBYTES THEN 10 ELSE 0
        d2 == IF ml = 0 THEN 1
              ELSE IF lm = 0 THEN 4
              ELSE IF lm < BLOCKBYTES THEN 1
              ELSE IF lm > BLOCKBYTES THEN 5 ELSE 0
    IN  BitXor(d1, d2)

\* the calls crypto_aead_encrypt_shared / crypto_aead_decrypt_shared make
M_encrypt_calls == <<"m_init", "m_ad", "m_gen_tag", "m_msg", "m_ret">>
\* decryption without the second romulusm_init
M_decrypt_calls_NoReset == <<"m_init", "m_tks23", "m_msg", "m_ad", "m_verify_tag", "m_ret">>
M_decrypt_calls == <<"m_init", "m_tks23", "m_msg", "m_init", "m_ad", "m_verify_tag",
                     "m_ret">>

m_encrypt ==
    /\ pc = "m_enc"
    /\ k' = shares_to_bytearr_2(ks).bytearr_0
    /\ k_m' = shares_to_bytearr_2(ks).bytearr_1
    /\ npub' = npubs
    /\ clen_out' = <<mlen + TAGBYTES>>
    /\ pc' = Head(M_encrypt_calls) /\ cont' = Tail(M_encrypt_calls)
    /\ Log(<<"encrypt">>)
    /\ UNCHANGED <<sessVars, argVars, mlen_out, ret, bufVars, npub_m, tabVars,
                   coreVars, adVars, msgVars, vtmp, calls>>

\* a length check placed after the start of the function body
m_decrypt_short_Late ==
    /\ pc = "m_dec" /\ clen < TAGBYTES
    /\ k' = shares_to_bytearr_2(ks).bytearr_0
    /\ k_m' = shares_to_bytearr_2(ks).bytearr_1
    /\ mlen_out' = <<clen - TAGBYTES>>
    /\ ret' = <<-1>>
    /\ pc' = "done"
    /\ Log(<<"decrypt:short">>)
    /\ UNCHANGED <<sessVars, argVars, clen_out, bufVars, npub, npub_m, tabVars,
                   coreVars, adVars, msgVars, vtmp, cont, calls>>

\* if (clen < TAGBYTES) return -1;
m_decrypt_short ==
    /\ pc = "m_dec" /\ clen < TAGBYTES
    /\ ret' = <<-1>>
    /\ pc' = "done"
    /\ Log(<<"decrypt:short">>)
    /\ UNCHANGED <<sessVars, argVars, clen_out, mlen_out, bufVars, keyVars, tabVars,
                   coreVars, adVars, msgVars, vtmp, cont, calls>>

m_decrypt ==
    /\ pc = "m_dec" /\ clen >= TAGBYTES
    /\ k' = shares_to_bytearr_2(ks).bytearr_0
    /\ k_m' = shares_to_bytearr_2(ks).bytearr_1
    /\ npub' = npubs
    /\ mlen_out' = <<clen - TAGBYTES>>
    /\ pc' = Head(M_decrypt_calls) /\ cont' = Tail(M_decrypt_calls)
    /\ Log(<<"decrypt">>)
    /\ UNCHANGED <<sessVars, argVars, clen_out, ret, bufVars, npub_m, tabVars,
                   coreVars, adVars, msgVars, vtmp, calls>>

\* return 0; / return romulusm_verify_tag(...);
m_return ==
    /\ pc = "m_ret"
    /\ ret' = IF mode = ENCRYPT_MODE THEN <<0>> ELSE vtmp
    /\ pc' = "done"
    /\ UNCHANGED <<sessVars, argVars, clen_out, mlen_out, bufVars, keyVars, tabVars,
                   coreVars, adVars, msgVars, vtmp, cont, trace, calls>>

romulusm_init ==
    /\ pc = "m_init"
    /\ tk1' = zeroize([[i \in Blk |-> None] EXCEPT ![0] = 1], 1, BLOCKBYTES - 1)
    /\ state' = zeroize([i \in Blk |-> None], 0, BLOCKBYTES)
    /\ state_m' = zeroize([i \in Blk |-> None], 0, BLOCKBYTES)
    /\ Return
    /\ Log(<<"init">>)
    /\ UNCHANGED <<sessVars, argVars, outVars, bufVars, keyVars, tabVars,
                   adVars, msgVars, vtmp, calls>>

\* tk_schedule_23(rtk_23, rtk_3m, npubs, k, k_m) in crypto_aead_decrypt_shared
m_tk_schedule_23 ==
    /\ pc = "m_tks23"
    /\ LET t == tk_schedule_23(npub, k, k_m)
       IN  rtk_23' = t.rtk_23 /\ rtk_3m' = t.rtk_3m
    /\ Return
    /\ Log(<<"tk_schedule_23">>)
    /\ UNCHANGED <<sessVars, argVars, outVars, bufVars, keyVars, rtk1, coreVars,
                   adVars, msgVars, vtmp, calls>>

\* romulusm_process_ad: final_domain, the first SET_DOMAIN
m_ad_entry ==
    /\ pc = "m_ad"
    /\ final_domain' = BitXor(48, final_ad_domain(adlen, MsgLen))
    /\ tk1' = SET_DOMAIN(tk1, 40)
    /\ a_off' = 0 /\ a_len' = adlen
    /\ m_off' = 0 /\ m_len' = MsgLen
    /\ rtk1' = NoTable
    /\ Goto("m_ad_loop")
    /\ Log(<<"ad">>)
    /\ AdFrame /\ UNCHANGED <<state, state_m, rtk_23, rtk_3m, calls>>

\* while (adlen > 2*BLOCKBYTES): up to the cipher call
m_ad_double ==
    /\ pc = "m_ad_loop" /\ a_len > 2 * BLOCKBYTES
    /\ LET t1 == UPDATE_CTR(tk1)
       IN  /\ tk1' = t1
           /\ Cipher123(XOR_BLOCK(state, Blockat(ads, a_off)), t1,
                        Blockat(ads, a_off + BLOCKBYTES), "ad")
           /\ Log(<<"ad:loop", CtrEv(tk1), "tk_schedule_123", "skinny128_384_plus">>)
    /\ Goto("m_ad_loop2")
    /\ AdFrame /\ UNCHANGED adVars

\* while (adlen > 2*BLOCKBYTES): after the cipher call
m_ad_double_next ==
    /\ pc = "m_ad_loop2"
    /\ tk1' = UPDATE_CTR(tk1)
    /\ a_off' = a_off + 2 * BLOCKBYTES
    /\ a_len' = a_len - 2 * BLOCKBYTES
    /\ Goto("m_ad_loop")
    /\ Log(<<CtrEv(tk1)>>)
    /\ AdFrame /\ UNCHANGED <<state, state_m, tabVars, m_off, m_len, final_domain, calls>>

\* left-over complete double block, up to the cipher call
m_ad_full_double ==
    /\ pc = "m_ad_loop" /\ a_len = 2 * BLOCKBYTES
    /\ LET t1 == UPDATE_CTR(tk1)
       IN  /\ tk1' = t1
           /\ Cipher123(XOR_BLOCK(state, Blockat(ads, a_off)), t1,
                        Blockat(ads, a_off + BLOCKBYTES), "ad")
           /\ Log(<<"ad:full-double", CtrEv(tk1), "tk_schedule_123",
                    "skinny128_384_plus">>)
    /\ Goto("m_ad_d2")
    /\ AdFrame /\ UNCHANGED adVars

\* left-over partial double block, up to the cipher call
m_ad_partial_double ==
    /\ pc = "m_ad_loop" /\ a_len < 2 * BLOCKBYTES /\ a_len > BLOCKBYTES
    /\ LET t1 == UPDATE_CTR(tk1)
           n  == a_len - BLOCKBYTES
       IN  /\ tk1' = t1
           /\ a_len' = n
           /\ Cipher123(XOR_BLOCK(state, Blockat(ads, a_off)), t1,
                        PadBlock(ads, a_off + BLOCKBYTES, n), "ad")
           /\ Log(<<"ad:partial-double", CtrEv(tk1), "tk_schedule_123",
                    "skinny128_384_plus">>)
    /\ Goto("m_ad_d2")
    /\ AdFrame /\ UNCHANGED <<a_off, m_off, m_len, final_domain>>

\* the UPDATE_CTR ending a left-over double block, SET_DOMAIN(tk1, 0x2C)
m_ad_double_done ==
    /\ pc = "m_ad_d2"
    /\ tk1' = SET_DOMAIN(UPDATE_CTR(tk1), 44)
    /\ Goto("m_m_loop")
    /\ Log(<<CtrEv(tk1)>>)
    /\ AdFrame /\ UNCHANGED <<state, state_m, tabVars, adVars, calls>>

\* left-over single block of AD, complete or partial (or no AD at all)
m_ad_single ==
    /\ pc = "m_ad_loop" /\ a_len <= BLOCKBYTES
    /\ tk1' = UPDATE_CTR(SET_DOMAIN(tk1, 44))
    /\ state' = IF a_len = BLOCKBYTES
                THEN XOR_BLOCK(state, Blockat(ads, a_off))
                ELSE AbsorbPartial(state, ads, a_off, a_len)
    /\ Goto("m_ad_fold")
    /\ Log(<<IF a_len = BLOCKBYTES THEN "ad:full-single" ELSE "ad:partial-single",
             CtrEv(tk1)>>)
    /\ AdFrame /\ UNCHANGED <<state_m, tabVars, adVars, calls>>

\* the fold without 'm += BLOCKBYTES': the folded block is absorbed again
m_ad_fold_full_NoAdvance ==
    /\ pc = "m_ad_fold" /\ m_len >= BLOCKBYTES
    /\ Cipher123(state, tk1, Blockat(ms, m_off), "ad")
    /\ tk1' = SET_DOMAIN(IF m_len > BLOCKBYTES THEN UPDATE_CTR(tk1) ELSE tk1, 44)
    /\ m_len' = m_len - BLOCKBYTES
    /\ Goto("m_m_loop")
    /\ Log(<<"fold:full", "tk_schedule_123", "skinny128_384_plus">>
           \o (IF m_len > BLOCKBYTES THEN <<"more", CtrEv(tk1)>> ELSE <<"last">>))
    /\ AdFrame /\ UNCHANGED <<a_off, a_len, m_off, final_domain>>

\* the first message block completes the AD block: mlen >= BLOCKBYTES
m_ad_fold_full ==
    /\ pc = "m_ad_fold" /\ m_len >= BLOCKBYTES
    /\ Cipher123(state, tk1, Blockat(ms, m_off), "ad")
    /\ tk1' = SET_DOMAIN(IF m_len > BLOCKBYTES THEN UPDATE_CTR(tk1) ELSE tk1, 44)
    /\ m_len' = m_len - BLOCKBYTES
    /\ m_off' = m_off + BLOCKBYTES
    /\ Goto("m_m_loop")
    /\ Log(<<"fold:full", "tk_schedule_123", "skinny128_384_plus">>
           \o (IF m_len > BLOCKBYTES THEN <<"more", CtrEv(tk1)>> ELSE <<"last">>))
    /\ AdFrame /\ UNCHANGED <<a_off, a_len, final_domain>>

\* the whole message, padded, completes the AD block: mlen < BLOCKBYTES
m_ad_fold_partial ==
    /\ pc = "m_ad_fold" /\ m_len < BLOCKBYTES
    /\ Cipher123(state, tk1, PadBlock(ms, m_off, m_len), "ad")
    /\ tk1' = SET_DOMAIN(tk1, 44)
    /\ m_len' = 0
    /\ Goto("m_m_loop")
    /\ Log(<<"fold:partial", "tk_schedule_123", "skinny128_384_plus">>)
    /\ AdFrame /\ UNCHANGED <<a_off, a_len, m_off, final_domain>>

\* while (mlen > 32): up to the cipher call
m_m_double ==
    /\ pc = "m_m_loop" /\ m_len > 2 * BLOCKBYTES
    /\ LET t1 == UPDATE_CTR(tk1)
       IN  /\ tk1' = t1
           /\ Cipher123(XOR_BLOCK(state, Blockat(ms, m_off)), t1,
                        Blockat(ms, m_off + BLOCKBYTES), "ad")
           /\ Log(<<"m:loop", CtrEv(tk1), "tk_schedule_123", "skinny128_384_plus">>)
    /\ Goto("m_m_loop2")
    /\ AdFrame /\ UNCHANGED adVars

\* while (mlen > 32): after the cipher call
m_m_double_next ==
    /\ pc = "m_m_loop2"
    /\ tk1' = UPDATE_CTR(tk1)
    /\ m_off' = m_off + 2 * BLOCKBYTES
    /\ m_len' = m_len - 2 * BLOCKBYTES
    /\ Goto("m_m_loop")
    /\ Log(<<CtrEv(tk1)>>)
    /\ AdFrame /\ UNCHANGED <<state, state_m, tabVars, a_off, a_len, final_domain, calls>>

\* last message double block is full
m_m_full_double ==
    /\ pc = "m_m_loop" /\ m_len = 2 * BLOCKBYTES
    /\ LET t1 == UPDATE_CTR(tk1)
       IN  /\ tk1' = t1
           /\ Cipher123(XOR_BLOCK(state, Blockat(ms, m_off)), t1,
                        Blockat(ms, m_off + BLOCKBYTES), "ad")
           /\ Log(<<"m:full-double", CtrEv(tk1), "tk_schedule_123",
                    "skinny128_384_plus">>)
    /\ Goto("m_ad_final")
    /\ AdFrame /\ UNCHANGED adVars

\* last message double block is partial
m_m_partial_double ==
    /\ pc = "m_m_loop" /\ m_len < 2 * BLOCKBYTES /\ m_len > BLOCKBYTES
    /\ LET t1 == UPDATE_CTR(tk1)
           n  == m_len - BLOCKBYTES
       IN  /\ tk1' = t1
           /\ m_len' = n
           /\ Cipher123(XOR_BLOCK(state, Blockat(ms, m_off)), t1,
                        PadBlock(ms, m_off + BLOCKBYTES, n), "ad")
           /\ Log(<<"m:partial-double", CtrEv(tk1), "tk_schedule_123",
                    "skinny128_384_plus">>)
    /\ Goto("m_ad_final")
    /\ AdFrame /\ UNCHANGED <<a_off, a_len, m_off, final_domain>>

\* last message single block is full, is partial, or there is none
m_m_single ==
    /\ pc = "m_m_loop" /\ m_len <= BLOCKBYTES
    /\ state' = IF m_len = BLOCKBYTES THEN XOR_BLOCK(state, Blockat(ms, m_off))
                ELSE IF m_len > 0 THEN AbsorbPartial(state, ms, m_off, m_len)
                ELSE state
    /\ Goto("m_ad_final")
    /\ Log(<<IF m_len = BLOCKBYTES THEN "m:full-single"
             ELSE IF m_len > 0 THEN "m:partial-single" ELSE "m:none">>)
    /\ AdFrame /\ UNCHANGED <<state_m, tk1, tabVars, adVars, calls>>

\* the last call on the tables of the block before: TK1 rescheduled alone
m_ad_final_StaleTables ==
    /\ pc = "m_ad_final"
    /\ LET t1 == UPDATE_CTR(SET_DOMAIN(tk1, final_domain))
       IN  /\ tk1' = t1
           /\ Cipher1(state, state_m, t1, "ad")
           /\ Log(<<CtrEv(tk1), "tk_schedule_1", "skinny128_384_plus">>)
    /\ Return
    /\ AdFrame /\ UNCHANGED adVars

\* the nonce call ending romulusm_process_ad
m_ad_final ==
    /\ pc = "m_ad_final"
    /\ LET t1 == UPDATE_CTR(SET_DOMAIN(tk1, final_domain))
       IN  /\ tk1' = t1
           /\ Cipher123(state, t1, npub, "ad")
           /\ Log(<<CtrEv(tk1), "tk_schedule_123", "skinny128_384_plus">>)
    /\ Return
    /\ AdFrame /\ UNCHANGED adVars

\* romulusm_process_msg: the counter (encryption) or the state (decryption)
m_msg_entry ==
    /\ pc = "m_msg"
    /\ IF mode = ENCRYPT_MODE
       THEN /\ tk1' = zeroize([tk1 EXCEPT ![0] = 1], 1, KEYBYTES - 1)
            /\ UNCHANGED state
       ELSE /\ state' = Mat([i \in Blk |-> BitXor(cs[MsgLen + i], state_m[i])])
            /\ UNCHANGED tk1
    /\ io_off' = 0 /\ inlen' = MsgLen
    /\ rtk1' = NoTable
    /\ Goto("m_msg_br")
    /\ Log(<<"msg">>)
    /\ MsgFrame /\ UNCHANGED <<bufVars, state_m, rtk_23, rtk_3m, calls>>

m_msg_empty ==
    /\ pc = "m_msg_br" /\ inlen = 0
    /\ Return
    /\ Log(<<"msg:empty">>)
    /\ MsgFrame /\ UNCHANGED <<bufVars, msgVars, coreVars, tabVars, calls>>

m_msg_start ==
    /\ pc = "m_msg_br" /\ inlen > 0
    /\ tk1' = SET_DOMAIN(tk1, 36)
    /\ Goto("m_msg_loop")
    /\ Log(<<"msg:nonempty">>)
    /\ MsgFrame /\ UNCHANGED <<bufVars, msgVars, state, state_m, tabVars, calls>>

\* the loop of romulusm_process_msg without its counter advance
m_msg_block_NoCtr ==
    /\ pc = "m_msg_loop" /\ inlen > BLOCKBYTES
    /\ LET r1 == tk_schedule_1(tk1)
           c  == skinny128_384_plus(state, state_m, rtk_23, rtk_3m, r1)
           r  == IF mode = ENCRYPT_MODE
                 THEN RHO(c.ctext, c.ctext_m, Blockat(InBuf, io_off), FALSE)
                 ELSE RHO_INV(c.ctext, c.ctext_m, Blockat(InBuf, io_off), FALSE)
           o  == IF mode = ENCRYPT_MODE THEN r.y ELSE r.z
       IN  /\ WriteOut(io_off, o, BLOCKBYTES)
           /\ state' = r.x /\ state_m' = c.ctext_m
           /\ rtk1' = r1
           /\ calls' = Append(calls, [tk1 |-> tk1, x |-> Unmask(state, state_m),
                                      ph |-> "msg"])
    /\ tk1' = tk1
    /\ io_off' = io_off + BLOCKBYTES
    /\ inlen' = inlen - BLOCKBYTES
    /\ Goto("m_msg_loop")
    /\ Log(<<"msg:loop", "tk_schedule_1", "skinny128_384_plus",
             IF mode = ENCRYPT_MODE THEN "RHO" ELSE "RHO_INV", CtrEv(tk1)>>)
    /\ MsgFrame /\ UNCHANGED <<rtk_23, rtk_3m>>

\* while (inlen > BLOCKBYTES)
m_msg_block ==
    /\ pc = "m_msg_loop" /\ inlen > BLOCKBYTES
    /\ LET r1 == tk_schedule_1(tk1)
           c  == skinny128_384_plus(state, state_m, rtk_23, rtk_3m, r1)
           r  == IF mode = ENCRYPT_MODE
                 THEN RHO(c.ctext, c.ctext_m, Blockat(InBuf, io_off), FALSE)
                 ELSE RHO_INV(c.ctext, c.ctext_m, Blockat(InBuf, io_off), FALSE)
           o  == IF mode = ENCRYPT_MODE THEN r.y ELSE r.z
       IN  /\ WriteOut(io_off, o, BLOCKBYTES)
           /\ state' = r.x /\ state_m' = c.ctext_m
           /\ rtk1' = r1
           /\ calls' = Append(calls, [tk1 |-> tk1, x |-> Unmask(state, state_m),
                                      ph |-> "msg"])
    /\ tk1' = UPDATE_CTR(tk1)
    /\ io_off' = io_off + BLOCKBYTES
    /\ inlen' = inlen - BLOCKBYTES
    /\ Goto("m_msg_loop")
    /\ Log(<<"msg:loop", "tk_schedule_1", "skinny128_384_plus",
             IF mode = ENCRYPT_MODE THEN "RHO" ELSE "RHO_INV", CtrEv(tk1)>>)
    /\ MsgFrame /\ UNCHANGED <<rtk_23, rtk_3m>>

\* the last block, of inlen <= BLOCKBYTES bytes
m_msg_last ==
    /\ pc = "m_msg_loop" /\ inlen <= BLOCKBYTES
    /\ LET r1 == tk_schedule_1(tk1)
           c  == skinny128_384_plus(state, state_m, rtk_23, rtk_3m, r1)
           r  == PartialBlock(c.ctext, c.ctext_m, Blockat0(InBuf, io_off, inlen),
                              inlen, TRUE)
       IN  /\ WriteOut(io_off, r.out, inlen)
           /\ state' = [r.state EXCEPT ![15] = BitXor(r.state[15], U8(inlen))]
           /\ state_m' = c.ctext_m
           /\ rtk1' = r1
           /\ calls' = Append(calls, [tk1 |-> tk1, x |-> Unmask(state, state_m),
                                      ph |-> "msg"])
    /\ Return
    /\ Log(<<"msg:last", "tk_schedule_1", "skinny128_384_plus", "bytes">>)
    /\ MsgFrame /\ UNCHANGED <<msgVars, tk1, rtk_23, rtk_3m>>

romulusm_generate_tag ==
    /\ pc = "m_gen_tag"
    /\ LET t == generate_tag(state, state_m)
       IN  /\ state' = t.state /\ state_m' = t.state_m
           /\ cs' = WriteAt(cs, mlen, t.c, TAGBYTES)
    /\ Return
    /\ Log(<<"generate_tag">>)
    /\ TagFrame /\ UNCHANGED <<ms, vtmp>>

romulusm_verify_tag ==
    /\ pc = "m_verify_tag"
    /\ LET v == verify_tag(Blockat(cs, clen - TAGBYTES), state, state_m)
       IN  /\ state' = v.state /\ state_m' = v.state_m
           /\ vtmp' = <<v.tmp>>
           /\ Log(<<"verify_tag", ToString(v.visited)>>)
    /\ Return
    /\ TagFrame /\ UNCHANGED <<ms, cs>>

MSteps ==
    \/ m_encrypt \/ m_decrypt_short \/ m_decrypt \/ m_return \/ romulusm_init
    \/ m_tk_schedule_23 \/ m_ad_entry \/ m_ad_double \/ m_ad_double_next
    \/ m_ad_full_double \/ m_ad_partial_double \/ m_ad_double_done
    \/ m_ad_single \/ m_ad_fold_full \/ m_ad_fold_partial
    \/ m_m_double \/ m_m_double_next \/ m_m_full_double \/ m_m_partial_double
    \/ m_m_single \/ m_ad_final
    \/ m_msg_entry \/ m_msg_empty \/ m_msg_start \/ m_msg_block \/ m_msg_last
    \/ romulusm_generate_tag \/ romulusm_verify_tag

\* ------------------------------------------------------------- Romulus-T
\* The three core functions of Romulus-T are declared, not defined, in the
\* sources at hand. They are taken as deterministic functions of what the
\* scheme feeds them: the key the two shares hold, the nonce, and the bytes.
SumTo(f, n) == LET RECURSIVE S(_)
                   S(i) == IF i = 0 THEN 0 ELSE (S(i - 1) + (i + 2) * f[i - 1]) % 256
               IN  S(n)

\* romulust_kdf: the session state from the key and the nonce
romulust_kdf_state(key, nonce) == CipherValue(nonce, ZeroBlock, ZeroBlock, key)

\* romulust_process_msg: n bytes of in, each combined with a key-stream byte
romulust_process_msg_out(st, nonce, inb, n) ==
    Mat([i \in 0..(n - 1) |->
            BitXor(inb[i], (3 * st[i % 16] + 5 * nonce[(i + 1) % 16]
                            + 7 * (i \div 16) + 1) % 256)])

\* romulust_generate_tag: the tag over the AD and the ciphertext
romulust_tag(ad, al, c, ml, nonce, key) ==
    LET ha == SumTo(ad, al)
        hc == SumTo(c, ml)
    IN  CipherValue(nonce,
                    Mat([i \in Blk |-> (ha + 3 * al + i) % 256]),
                    Mat([i \in Blk |-> (hc + 5 * ml + 2 * i) % 256]), key)

\* the nonce the core functions work with: crypto_aead_decrypt_shared hands
\* them npub unmasked, crypto_aead_encrypt_shared hands them the two shares
TNonce == IF mode = ENCRYPT_MODE THEN Unmask(npub, npub_m) ELSE npub

T_encrypt_calls == <<"t_kdf", "t_msg", "t_gen_tag", "t_ret">>
\* decryption that runs the message pass before it checks the tag
T_decrypt_calls_DecryptFirst == <<"t_kdf", "t_msg", "t_gen_tag", "t_compare", "t_ret">>
T_decrypt_calls == <<"t_gen_tag", "t_compare", "t_kdf", "t_msg", "t_ret">>

t_encrypt ==
    /\ pc = "t_enc"
    /\ k' = shares_to_bytearr_2(ks).bytearr_0
    /\ k_m' = shares_to_bytearr_2(ks).bytearr_1
    /\ npub' = shares_to_bytearr_2(npubs).bytearr_0
    /\ npub_m' = shares_to_bytearr_2(npubs).bytearr_1
    /\ clen_out' = <<mlen + TAGBYTES>>
    /\ tk1' = zeroize([i \in Blk |-> None], 0, BLOCKBYTES)
    /\ pc' = Head(T_encrypt_calls) /\ cont' = Tail(T_encrypt_calls)
    /\ Log(<<"encrypt">>)
    /\ UNCHANGED <<sessVars, argVars, mlen_out, ret, bufVars, tabVars,
                   state, state_m, adVars, msgVars, vtmp, calls>>

\* if (clen < TAGBYTES) return -1;
t_decrypt_short ==
    /\ pc = "t_dec" /\ clen < TAGBYTES
    /\ ret' = <<-1>>
    /\ pc' = "done"
    /\ Log(<<"decrypt:short">>)
    /\ UNCHANGED <<sessVars, argVars, clen_out, mlen_out, bufVars, keyVars, tabVars,
                   coreVars, adVars, msgVars, vtmp, cont, calls>>

t_decrypt ==
    /\ pc = "t_dec" /\ clen >= TAGBYTES
    /\ k' = shares_to_bytearr_2(ks).bytearr_0
    /\ k_m' = shares_to_bytearr_2(ks).bytearr_1
    /\ npub' = Unmask(shares_to_bytearr_2(npubs).bytearr_0,
                      shares_to_bytearr_2(npubs).bytearr_1)
    /\ npub_m' = shares_to_bytearr_2(npubs).bytearr_1
    /\ mlen_out' = <<clen - TAGBYTES>>
    /\ tk1' = zeroize([i \in Blk |-> None], 0, BLOCKBYTES)
    /\ pc' = Head(T_decrypt_calls) /\ cont' = Tail(T_decrypt_calls)
    /\ Log(<<"decrypt">>)
    /\ UNCHANGED <<sessVars, argVars, clen_out, ret, bufVars, tabVars,
                   state, state_m, adVars, msgVars, vtmp, calls>>

TFrame == UNCHANGED <<sessVars, argVars, outVars, keyVars, tabVars, state_m,
                      adVars, msgVars>>

\* romulust_generate_tag: into cs + mlen (encryption), into state (decryption)
romulust_generate_tag ==
    /\ pc = "t_gen_tag"
    /\ LET t == romulust_tag(ads, adlen, cs, MsgLen, TNonce, Unmask(k, k_m))
       IN  IF mode = ENCRYPT_MODE
           THEN cs' = WriteAt(cs, mlen, t, TAGBYTES) /\ UNCHANGED state
           ELSE state' = t /\ UNCHANGED cs
    /\ calls' = Append(calls, [ad |-> ads, c |-> Blockat0(cs, 0, MsgLen)])
    /\ Return
    /\ Log(<<"generate_tag">>)
    /\ TFrame /\ UNCHANGED <<ms, tk1, vtmp>>

\* tmp |= state[i] ^ cs[clen-TAGBYTES+i] from index i on
RECURSIVE CompareLoop(_, _, _, _)
CompareLoop(i, tmp, st, tag) ==
    IF i < TAGBYTES
    THEN CompareLoop(i + 1, BitOr(tmp, BitXor(st[i], tag[i])), st, tag)
    ELSE [tmp |-> tmp, visited |-> i]

\* the tag verification loop; if (tmp) return -1; zeroize(tk1, BLOCKBYTES);
t_compare ==
    /\ pc = "t_compare"
    /\ LET l == CompareLoop(0, 0, state, Blockat(cs, clen - TAGBYTES))
       IN  /\ vtmp' = <<l.tmp>>
           /\ Log(<<"compare", ToString(l.visited)>>)
           /\ IF l.tmp # 0
              THEN ret' = <<-1>> /\ pc' = "done" /\ UNCHANGED <<cont, tk1>>
              ELSE /\ tk1' = zeroize(tk1, 0, BLOCKBYTES)
                   /\ Return /\ UNCHANGED ret
    /\ UNCHANGED <<sessVars, argVars, clen_out, mlen_out, bufVars, keyVars, tabVars,
                   state, state_m, adVars, msgVars, calls>>

romulust_kdf ==
    /\ pc = "t_kdf"
    /\ state' = romulust_kdf_state(Unmask(k, k_m), TNonce)
    /\ Return
    /\ Log(<<"kdf">>)
    /\ TFrame /\ UNCHANGED <<bufVars, tk1, vtmp, calls>>

romulust_process_msg ==
    /\ pc = "t_msg"
    /\ WriteOut(0, romulust_process_msg_out(state, TNonce, InBuf, MsgLen), MsgLen)
    /\ Return
    /\ Log(<<"process_msg">>)
    /\ TFrame /\ UNCHANGED <<state, tk1, vtmp, calls>>

\* return 0;
t_return ==
    /\ pc = "t_ret"
    /\ ret' = <<0>>
    /\ pc' = "done"
    /\ UNCHANGED <<sessVars, argVars, clen_out, mlen_out, bufVars, keyVars, tabVars,
                   coreVars, adVars, msgVars, vtmp, cont, trace, calls>>

TSteps ==
    \/ t_encrypt \/ t_decrypt_short \/ t_decrypt \/ romulust_generate_tag
    \/ t_compare \/ romulust_kdf \/ romulust_process_msg \/ t_return

Call ==
    \/ \E v \in Variants, al \in Lengths, ml \in Lengths : Encrypt(v, al, ml)
    \/ \E tp \in Tampers, rs \in {mseed, mseed + 1} : Decrypt(tp, rs)
    \/ \E sd \in Seeds \ {1} : Replay(sd)

Next == Call \/ NSteps \/ MSteps \/ TSteps

Spec == Init /\ [][Next]_vars

\* ------------------------------------------ RHO and RHO_INV on their own
\* One block: state / state_m are the shares x / x_m, ms is what the in buffer
\* holds and cs what the out buffer holds; with out == in the two are one
\* buffer and hold the same bytes after the call.
RhoBlocks(salt) == {Data(sd, salt, BLOCKBYTES) : sd \in 0..MaxSeed} \cup {ZeroBlock}

InitRho ==
    /\ variant = None /\ mode = ENCRYPT_MODE /\ seed = 0 /\ mseed = 0
    /\ tamper = None /\ replayed = FALSE
    /\ adlen = 0 /\ mlen = BLOCKBYTES /\ clen = 0
    /\ ads = Unset /\ npubs = Unset /\ ks = Unset
    /\ clen_out = NoValue /\ mlen_out = NoValue /\ ret = NoValue
    /\ pc = "rho" /\ cont = <<>>
    /\ k = Unset /\ k_m = Unset /\ npub = Unset /\ npub_m = Unset
    /\ tk1 = Unset
    /\ rtk_23 = NoTable /\ rtk_3m = NoTable /\ rtk1 = NoTable
    /\ a_off = 0 /\ a_len = 0 /\ m_off = 0 /\ m_len = 0
    /\ io_off = 0 /\ inlen = 0 /\ final_domain = 0 /\ vtmp = NoValue
    /\ trace = <<>> /\ calls = <<>>
    /\ prev_trace = <<>> /\ enc_calls = <<>> /\ enc_cs = Unset /\ plain = Unset
    /\ aliased = FALSE /\ regs = NoValue
    /\ state \in RhoBlocks(9)
    /\ state_m \in RhoBlocks(10)
    /\ ms \in RhoBlocks(6)
    /\ cs = Garbage(1, BLOCKBYTES)
    /\ pre = <<[x |-> state, x_m |-> state_m, in |-> ms]>>

RhoFrame == UNCHANGED <<variant, seed, mseed, tamper, replayed, prev_trace, enc_calls,
                        enc_cs, argVars, outVars, keyVars, tabVars, tk1, adVars,
                        msgVars, vtmp, cont, calls, regs>>

\* RHO(state, state_m, out, in, tmp) on the plaintext block in
rho_call(al) ==
    /\ pc = "rho"
    /\ LET r == RHO(state, state_m, ms, al)
       IN  /\ state' = r.x
           /\ cs' = r.y
           /\ ms' = IF al THEN r.y ELSE ms
    /\ aliased' = al
    /\ plain' = ms
    /\ pre' = pre \o <<[x |-> state', x_m |-> state_m, aliased |-> al]>>
    /\ pc' = "rho_done"
    /\ Log(<<"RHO">>)
    /\ UNCHANGED state_m /\ RhoFrame

\* RHO_INV(state, state_m, in, out, tmp) on the ciphertext block in
rho_inv_call(al) ==
    /\ pc = "rho"
    /\ LET r == RHO_INV(state, state_m, ms, al)
       IN  /\ state' = r.x
           /\ cs' = r.z
           /\ ms' = IF al THEN r.z ELSE ms
    /\ aliased' = al
    /\ pc' = "rho_inv_done"
    /\ Log(<<"RHO_INV">>)
    /\ UNCHANGED <<state_m, plain, pre>> /\ RhoFrame

\* RHO_INV, from the state RHO started from, on the block RHO produced
rho_inv_back(al) ==
    /\ pc = "rho_done"
    /\ LET r == RHO_INV(pre[1].x, pre[1].x_m, cs, al)
       IN  /\ state' = r.x
           /\ ms' = r.z
           /\ cs' = IF al THEN r.z ELSE cs
    /\ aliased' = al
    /\ pc' = "rho_back"
    /\ Log(<<"RHO_INV">>)
    /\ UNCHANGED <<state_m, plain, pre>> /\ RhoFrame

NextRho == \E al \in BOOLEAN : rho_call(al) \/ rho_inv_call(al) \/ rho_inv_back(al)

SpecRho == InitRho /\ [][NextRho]_vars

\* ------------------------------------------- masked cipher (assembly macros)
\* The S-box macros work bit by bit on 32-bit registers; the only shifts are
\* those of swpmv with the mask 0x55555555, which move a bit inside its pair
\* of bits (2i, 2i+1).  A register is modelled by one such pair of bits.
Lane == 0..3
LaneOnes == CHOOSE a \in Lane : \A b \in Lane : b <= a       \* all bits set
LaneMask5 == CHOOSE a \in Lane : a = LaneOnes \div 3         \* 0x55555555

lsr(a, sh) == IF sh = 0 THEN a ELSE a \div 2
lsl(a, sh) == IF sh = 0 THEN a ELSE (2 * a) % (LaneOnes + 1)

\* one instruction: op d, a, b with FlexOp2 = b shifted by sh
Ins(op, d, a, b) == [op |-> op, d |-> d, a |-> a, b |-> b, shift |-> "lsl", sh |-> 0]
InsSh(op, d, a, b, shift, sh) ==
    [op |-> op, d |-> d, a |-> a, b |-> b, shift |-> shift, sh |-> sh]

\* the register file after instruction ins
Exec(r, ins) ==
    LET op2 == IF ins.shift = "lsr" THEN lsr(r[ins.b], ins.sh) ELSE lsl(r[ins.b], ins.sh)
        v   == CASE ins.op = "eor" -> BitXor(r[ins.a], op2)
                 [] ins.op = "and" -> BitAnd(r[ins.a], op2)
                 [] ins.op = "orr" -> BitOr(r[ins.a], op2)
                 [] ins.op = "orn" -> BitOr(r[ins.a], LaneOnes - op2)
                 [] ins.op = "mvn" -> LaneOnes - op2
    IN  [r EXCEPT ![ins.d] = v]

\* the register file after the instructions code[1..n]
RECURSIVE RunTo(_, _, _)
RunTo(r, code, n) == IF n = 0 THEN r ELSE Exec(RunTo(r, code, n - 1), code[n])
Run(r, code) == RunTo(r, code, Len(code))

swpmv(in0, in1, tmp, mask, sh0, sh1) ==
    << InsSh("eor", tmp, in1, in0, "lsr", sh0),
       InsSh("and", tmp, tmp, mask, "lsr", sh1),
       Ins("eor", in1, in1, tmp),
       InsSh("eor", in0, in0, tmp, "lsl", sh0) >>

\* secand with orr in place of orn
secand_PlainOr(z1, z2, x1, x2, y1, y2, tmp) ==
    << Ins("orr", tmp, x1, y2), Ins("and", z1, x1, y1), Ins("eor", z1, tmp, z1),
       Ins("orr", tmp, x2, y2), Ins("and", z2, x2, y1), Ins("eor", z2, z2, tmp) >>

secand(z1, z2, x1, x2, y1, y2, tmp) ==
    << Ins("orn", tmp, x1, y2),
       Ins("and", z1, x1, y1),
       Ins("eor", z1, tmp, z1),
       Ins("orn", tmp, x2, y2),
       Ins("and", z2, x2, y1),
       Ins("eor", z2, z2, tmp) >>

\* secorr whose second share takes x2 | y2 where the macro takes x2 & y2
secorr_WrongTerm(z1, z2, x1, x2, y1, y2, tmp) ==
    << Ins("orr", tmp, x1, y2), Ins("and", z1, x1, y1), Ins("eor", z1, tmp, z1),
       Ins("orr", tmp, x2, y2), Ins("orr", z2, x2, y1), Ins("eor", z2, z2, tmp) >>

\* secorr that first recombines the shares of x in tmp
secorr_Recombine(z1, z2, x1, x2, y1, y2, tmp) ==
    << Ins("eor", tmp, x1, x2), Ins("and", z1, tmp, y1), Ins("eor", z1, tmp, z1),
       Ins("and", tmp, tmp, y2), Ins("eor", z2, y1, y2), Ins("eor", z2, z2, tmp) >>

secorr(z1, z2, x1, x2, y1, y2, tmp) ==
    << Ins("orr", tmp, x1, y2),
       Ins("and", z1, x1, y1),
       Ins("eor", z1, tmp, z1),
       Ins("and", tmp, x2, y2),
       Ins("orr", z2, x2, y1),
       Ins("eor", z2, z2, tmp) >>

secxor(z1, z2, x1, x2, y1, y2) ==
    << Ins("eor", z1, x1, y1),
       Ins("eor", z2, x2, y2) >>

\* the four layers of the sbox macro, one instruction sequence per layer
sbox(in0, in1, in2, in3, in0m, in1m, in2m, in3m, tmp, tmpm, mask) ==
    << \* 1st layer
       secorr(tmp, tmpm, in0, in0m, in1, in1m, "r0")
       \o secxor(in3, in3m, in3, in3m, tmp, tmpm)
       \o << Ins("mvn", in3, in3, in3) >>
       \o swpmv(in2, in1, tmp, mask, 1, 0)
       \o swpmv(in3, in2, tmp, mask, 1, 0)
       \o swpmv(in2m, in1m, tmp, mask, 1, 0)
       \o swpmv(in3m, in2m, tmp, mask, 1, 0),
       \* 2nd layer
       secorr(tmp, tmpm, in2, in2m, in3, in3m, "r0")
       \o secxor(in1, in1m, in1, in1m, tmp, tmpm)
       \o << Ins("mvn", in1, in1, in1) >>
       \o swpmv(in1, in0, tmp, mask, 1, 0)
       \o swpmv(in0, in3, tmp, mask, 1, 0)
       \o swpmv(in1m, in0m, tmp, mask, 1, 0)
       \o swpmv(in0m, in3m, tmp, mask, 1, 0),
       \* 3rd layer
       secorr(tmp, tmpm, in0, in0m, in1, in1m, "r0")
       \o secxor(in3, in3m, in3, in3m, tmp, tmpm)
       \o << Ins("mvn", in3, in3, in3) >>
       \o swpmv(in2, in1, tmp, mask, 1, 0)
       \o swpmv(in3, in2, tmp, mask, 1, 0)
       \o swpmv(in2m, in1m, tmp, mask, 1, 0)
       \o swpmv(in3m, in2m, tmp, mask, 1, 0),
       \* 4th layer
       secorr(tmp, tmpm, in2, in2m, in3, in3m, "r0")
       \o secxor(in1, in1m, in1, in1m, tmp, tmpm)
       \o swpmv(in0, in3, tmp, mask, 0, 0)
       \o swpmv(in0m, in3m, tmp, mask, 0, 0) >>

\* the variables of the AEAD call other than the caller's key, nonce and mode,
\* while no AEAD call is made
NoAeadCallButKeys ==
    /\ seed = 0 /\ mseed = 0
    /\ tamper = None /\ replayed = FALSE
    /\ adlen = 0 /\ mlen = 0 /\ clen = 0
    /\ ads = Unset /\ ms = Unset /\ cs = Unset
    /\ clen_out = NoValue /\ mlen_out = NoValue /\ ret = NoValue
    /\ state = Unset /\ state_m = Unset /\ tk1 = Unset
    /\ rtk_23 = NoTable /\ rtk_3m = NoTable /\ rtk1 = NoTable
    /\ a_off = 0 /\ a_len = 0 /\ m_off = 0 /\ m_len = 0
    /\ io_off = 0 /\ inlen = 0 /\ final_domain = 0 /\ vtmp = NoValue
    /\ calls = <<>> /\ prev_trace = <<>> /\ enc_calls = <<>> /\ enc_cs = Unset
    /\ plain = Unset /\ aliased = FALSE

\* the AEAD variables while no AEAD call is made
NoAeadCall ==
    /\ NoAeadCallButKeys
    /\ variant = None /\ mode = ENCRYPT_MODE
    /\ npubs = Unset /\ ks = Unset
    /\ k = Unset /\ k_m = Unset /\ npub = Unset /\ npub_m = Unset

MacroFrame == UNCHANGED <<variant, seed, mseed, tamper, replayed, prev_trace, enc_calls,
                          enc_cs, plain, aliased, argVars, outVars, bufVars, keyVars,
                          tabVars, coreVars, adVars, msgVars, vtmp, calls>>

\* --- one S-box of quadruple_round: sbox r2, r3, r4, r5, r10, r11, r12, r14,
\* r8, r9, r6 with r6 = 0x55555555, run layer by layer
SboxLayers == <<"sbox_l1", "sbox_l2", "sbox_l3", "sbox_l4", "sbox_done">>
SboxCode == sbox("r2", "r3", "r4", "r5", "r10", "r11", "r12", "r14", "r8", "r9", "r6")
LayerOf(l) == CHOOSE n \in 1..Len(SboxCode) : SboxLayers[n] = l

\* the same S-box sequence without masking: one register set, secorr
\* replaced by orr, each mvn applied once
sbox_unmasked(in0, in1, in2, in3, tmp, mask) ==
    << << Ins("orr", tmp, in0, in1), Ins("eor", in3, in3, tmp), Ins("mvn", in3, in3, in3) >>
       \o swpmv(in2, in1, tmp, mask, 1, 0) \o swpmv(in3, in2, tmp, mask, 1, 0),
       << Ins("orr", tmp, in2, in3), Ins("eor", in1, in1, tmp), Ins("mvn", in1, in1, in1) >>
       \o swpmv(in1, in0, tmp, mask, 1, 0) \o swpmv(in0, in3, tmp, mask, 1, 0),
       << Ins("orr", tmp, in0, in1), Ins("eor", in3, in3, tmp), Ins("mvn", in3, in3, in3) >>
       \o swpmv(in2, in1, tmp, mask, 1, 0) \o swpmv(in3, in2, tmp, mask, 1, 0),
       << Ins("orr", tmp, in2, in3), Ins("eor", in1, in1, tmp) >>
       \o swpmv(in0, in3, tmp, mask, 0, 0) >>
UnmaskedCode == sbox_unmasked("r2", "r3", "r4", "r5", "r8", "r6")

\* registers r0, r8, r9 are written by the macro before it reads them
InitSbox ==
    /\ NoAeadCall
    /\ pc = Head(SboxLayers) /\ cont = Tail(SboxLayers)
    /\ trace = <<>>
    /\ \E a \in [{"r2", "r3", "r4", "r5", "r10", "r11", "r12", "r14"} -> Lane] :
          /\ regs = a @@ [r \in {"r0", "r8", "r9"} |-> 0] @@ [r \in {"r6"} |-> LaneMask5]
          /\ pre = << [r \in {"r2", "r3", "r4", "r5"} |->
                          BitXor(a[r], a[CASE r = "r2" -> "r10" [] r = "r3" -> "r11"
                                           [] r = "r4" -> "r12" [] r = "r5" -> "r14"])]
                      @@ [r \in {"r8"} |-> 0] @@ [r \in {"r6"} |-> LaneMask5] >>

\* one layer of the masked S-box; pre[1] runs the same layer without masking
sbox_layer ==
    /\ pc \in {SboxLayers[n] : n \in 1..Len(SboxCode)}
    /\ regs' = Run(regs, SboxCode[LayerOf(pc)])
    /\ pre' = << Run(pre[1], UnmaskedCode[LayerOf(pc)]) >>
    /\ Return
    /\ Log(<<pc>>)
    /\ MacroFrame

NextSbox == sbox_layer

SpecSbox == InitSbox /\ [][NextSbox]_vars

\* --- one gadget run on its own registers, instruction by instruction
Gadgets == {"secand", "secorr", "secxor"}
GadgetCode(g) ==
    CASE g = "secand" -> secand("z1", "z2", "x1", "x2", "y1", "y2", "tmp")
      [] g = "secorr" -> secorr("z1", "z2", "x1", "x2", "y1", "y2", "tmp")
      [] g = "secxor" -> secxor("z1", "z2", "x1", "x2", "y1", "y2")

\* the registers of a gadget entered with the shares (x1, x2) and (y1, y2)
GadgetRegs(x1, x2, y1, y2) ==
    [r \in {"z1", "z2", "tmp"} |-> 0]
    @@ [r \in {"x1", "x2", "y1", "y2"} |->
           CASE r = "x1" -> x1 [] r = "x2" -> x2 [] r = "y1" -> y1 [] r = "y2" -> y2]

\* pre[1]: the registers on entry; trace: the values written so far
InitGadget ==
    /\ NoAeadCall
    /\ pc \in Gadgets /\ cont = <<>>
    /\ trace = <<>>
    /\ \E x1 \in Lane, x2 \in Lane, y1 \in Lane, y2 \in Lane :
          regs = GadgetRegs(x1, x2, y1, y2)
    /\ pre = <<regs>>

\* the next instruction of gadget g
gadget_step(g) ==
    /\ pc = g
    /\ LET code == GadgetCode(g)
           n    == Len(trace) + 1
           r    == Exec(regs, code[n])
       IN  /\ regs' = r
           /\ trace' = Append(trace, r[code[n].d])
           /\ pc' = IF n = Len(code) THEN g \o "_done" ELSE g
    /\ UNCHANGED <<pre, cont>>
    /\ MacroFrame

NextGadget == \E g \in Gadgets : gadget_step(g)

SpecGadget == InitGadget /\ [][NextGadget]_vars

\* ------------------------------------------ generate_shares_* step by step
\* what one randombytes(buf, 4) call may return
RandFills == {Data(sd + 100, salt, 4) : sd \in 1..MaxSeed, salt \in {2}}

\* a masked array of 4 words before it is written
BlankShares == Mat([i \in 0..3 |-> [shares |-> <<LoadWord(ZeroBlock, 0), LoadWord(ZeroBlock, 0)>>]])

\* npubs as generate_shares_* of Romulus-M packs it: shares[0] only
PackWords(bytes) ==
    Mat([i \in 0..3 |-> [shares |-> <<LoadWord(bytes, i), LoadWord(ZeroBlock, 0)>>]])

\* pre[1]: the key and nonce bytes the caller passes; trace: the randombytes
\* calls made so far (the word each filled, the bytes returned)
InitShares ==
    /\ NoAeadCallButKeys
    /\ variant \in {"M", "T"} /\ mode \in {ENCRYPT_MODE, DECRYPT_MODE}
    /\ \E sd \in Seeds : pre = <<[k |-> KeyBytes(sd), npub |-> NonceBytes(sd)]>>
    /\ ks = BlankShares
    /\ npubs = IF variant = "T" THEN BlankShares ELSE PackWords(pre[1].npub)
    /\ k = Unset /\ k_m = Unset /\ npub = Unset /\ npub_m = Unset
    /\ pc = IF variant = "T" THEN "gs_npubs_rand" ELSE "gs_ks_rand"
    /\ cont = <<>> /\ trace = <<>> /\ regs = NoValue

SharesFrame == UNCHANGED <<seed, mseed, tamper, replayed, prev_trace, enc_calls, enc_cs,
                           plain, aliased, regs, pre, variant, mode, adlen, mlen, clen,
                           ads, outVars, bufVars, tabVars, coreVars, adVars, msgVars,
                           vtmp, calls, cont>>

\* the randombytes calls already made for array arr
FillsOf(arr) == {j \in 1..Len(trace) : trace[j].arr = arr}

\* randombytes((uint8_t *)(&(npubs[i].shares[1])), 4), Romulus-T only
gs_npubs_rand ==
    /\ pc = "gs_npubs_rand"
    /\ LET i == Cardinality(FillsOf("npubs"))
       IN  \E fill \in RandFills :
              /\ npubs' = [npubs EXCEPT ![i].shares[2] = LoadWord(fill, 0)]
              /\ trace' = Append(trace, [arr |-> "npubs", word |-> i, bytes |-> fill, ok |-> TRUE])
              /\ pc' = IF i = 3 THEN "gs_npubs_xor" ELSE "gs_npubs_rand"
    /\ UNCHANGED <<ks, k, k_m, npub, npub_m>> /\ SharesFrame

\* npubs[i].shares[0] = npubs[i].shares[1] ^ ((uint32_t *)npub)[i]
gs_npubs_xor ==
    /\ pc = "gs_npubs_xor"
    /\ npubs' = Mat([i \in 0..3 |->
                  [shares |-> <<WXor(npubs[i].shares[2], LoadWord(pre[1].npub, i)),
                                npubs[i].shares[2]>>]])
    /\ pc' = "gs_ks_rand"
    /\ UNCHANGED <<ks, k, k_m, npub, npub_m, trace>> /\ SharesFrame

\* randombytes((uint8_t *)(&(ks[i].shares[1])), 4)
gs_ks_rand ==
    /\ pc = "gs_ks_rand"
    /\ LET i == Cardinality(FillsOf("ks"))
       IN  \E fill \in RandFills :
              /\ ks' = [ks EXCEPT ![i].shares[2] = LoadWord(fill, 0)]
              /\ trace' = Append(trace, [arr |-> "ks", word |-> i, bytes |-> fill, ok |-> TRUE])
              /\ pc' = IF i = 3 THEN "gs_ks_xor" ELSE "gs_ks_rand"
    /\ UNCHANGED <<npubs, k, k_m, npub, npub_m>> /\ SharesFrame

\* ks[i].shares[0] = ks[i].shares[1] ^ ((uint32_t *)k)[i]
gs_ks_xor ==
    /\ pc = "gs_ks_xor"
    /\ ks' = Mat([i \in 0..3 |->
               [shares |-> <<WXor(ks[i].shares[2], LoadWord(pre[1].k, i)),
                             ks[i].shares[2]>>]])
    /\ pc' = "gs_unpack"
    /\ UNCHANGED <<npubs, k, k_m, npub, npub_m, trace>> /\ SharesFrame

\* crypto_aead_*_shared: shares_to_bytearr_2(k, k_m, ks) and, in Romulus-T,
\* shares_to_bytearr_2(npub, npub_m, npubs)
gs_unpack ==
    /\ pc = "gs_unpack"
    /\ k' = shares_to_bytearr_2(ks).bytearr_0
    /\ k_m' = shares_to_bytearr_2(ks).bytearr_1
    /\ IF variant = "T"
       THEN /\ npub' = shares_to_bytearr_2(npubs).bytearr_0
            /\ npub_m' = shares_to_bytearr_2(npubs).bytearr_1
       ELSE UNCHANGED <<npub, npub_m>>
    /\ pc' = "gs_done"
    /\ UNCHANGED <<ks, npubs, trace>> /\ SharesFrame

NextShares == gs_npubs_rand \/ gs_npubs_xor \/ gs_ks_rand \/ gs_ks_xor \/ gs_unpack

SpecShares == InitShares /\ [][NextShares]_vars

\* --- randombytes unable to supply the bytes.  Its prototype returns void:
\* the call either does not return (the source ends the program) or returns
\* with the 4 bytes of shares[1] as the caller's array held them.
StaleWords == {LoadWord(ZeroBlock, 0)} \cup {LoadWord(f, 0) : f \in RandFills}
Supplied == \A j \in 1..Len(trace) : trace[j].ok

\* a randombytes call that cannot supply its bytes and ends the program
gs_rand_abort ==
    /\ pc \in {"gs_npubs_rand", "gs_ks_rand"} /\ Supplied
    /\ pc' = "gs_abort"
    /\ UNCHANGED <<ks, npubs, k, k_m, npub, npub_m, trace>> /\ SharesFrame

\* a randombytes call that cannot supply its bytes and returns
gs_rand_unfilled ==
    /\ pc \in {"gs_npubs_rand", "gs_ks_rand"} /\ Supplied
    /\ LET arr == IF pc = "gs_ks_rand" THEN "ks" ELSE "npubs"
           i   == Cardinality(FillsOf(arr))
       IN  /\ \E w \in StaleWords :
                 IF arr = "ks"
                 THEN ks' = [ks EXCEPT ![i].shares[2] = w] /\ UNCHANGED npubs
                 ELSE npubs' = [npubs EXCEPT ![i].shares[2] = w] /\ UNCHANGED ks
           /\ trace' = Append(trace, [arr |-> arr, word |-> i, bytes |-> NoValue,
                                      ok |-> FALSE])
           /\ pc' = IF i < 3 THEN pc
                    ELSE IF arr = "ks" THEN "gs_ks_xor" ELSE "gs_npubs_xor"
    /\ UNCHANGED <<k, k_m, npub, npub_m>> /\ SharesFrame

NextSharesUnavailable == NextShares \/ gs_rand_abort \/ gs_rand_unfilled

SpecSharesUnavailable == InitShares /\ [][NextSharesUnavailable]_vars

\* ================================================================ properties
\* what the output buffer ms of a decryption held when the call started
MsBefore == Garbage(seed + 1, mlen)

\* index of the first occurrence of event e in trace, 0 if there is none
Pos(e) ==
    IF \E i \in 1..Len(trace) : trace[i] = e
    THEN CHOOSE i \in 1..Len(trace) : trace[i] = e /\ \A j \in 1..(i - 1) : trace[j] # e
    ELSE 0

\* the 56-bit counter: bytes 0..6 of tk1
Counter(t) == Mat([i \in 0..6 |-> t[i]])
InitialCounter == Mat([i \in 0..6 |-> IF i = 0 THEN 1 ELSE 0])

\* a step inside process_ad, process_msg or the tag functions of N and M
InCore ==
    /\ variant \in {"N", "M"}
    /\ pc \notin {"idle", "done", "n_enc", "n_dec", "m_enc", "m_dec", "n_init", "m_init"}

\* C1: Romulus-M round trip.  Encryption returns 0 with *clen = mlen + 16;
\* decrypting what it produced, under the same key, nonce and AD, returns 0,
\* sets *mlen = mlen and leaves the original plaintext in ms.
C1_RomulusM_RoundTrip ==
    (variant = "M" /\ pc = "done") =>
        /\ mode = ENCRYPT_MODE => ret = <<0>> /\ clen_out = <<mlen + TAGBYTES>>
        /\ (mode = DECRYPT_MODE /\ tamper = "intact" /\ ~replayed) =>
              ret = <<0>> /\ mlen_out = <<mlen>> /\ ms = plain

C1_Witness ==
    /\ variant = "M" /\ pc = "done" /\ mode = DECRYPT_MODE /\ tamper = "intact"
    /\ ~replayed /\ adlen > BLOCKBYTES /\ mlen > 2 * BLOCKBYTES
    /\ ret = <<0>> /\ ms = plain /\ ms # cs

\* C2: Romulus-N round trip on the core functions.  init, process_ad,
\* process_msg(DECRYPT_MODE) on the ciphertext init, process_ad,
\* process_msg(ENCRYPT_MODE), generate_tag produced recovers the plaintext,
\* calls the cipher under the same TK1 values on the same unmasked states, and
\* verify_tag on the produced tag returns 0.
C2_RomulusN_RoundTrip ==
    (variant = "N" /\ pc = "done" /\ mode = DECRYPT_MODE /\ tamper = "intact"
     /\ ~replayed) =>
        /\ ms = plain
        /\ calls = enc_calls
        /\ vtmp = <<0>>

C2_Witness ==
    /\ variant = "N" /\ pc = "done" /\ mode = DECRYPT_MODE /\ tamper = "intact"
    /\ ~replayed /\ adlen > 2 * BLOCKBYTES /\ mlen > 2 * BLOCKBYTES
    /\ mseed = seed        \* the key shares the encryption had
    /\ ms = plain /\ Len(calls) > 4 /\ calls = enc_calls /\ vtmp = <<0>>

\* C3: Romulus-M decryption that returns non-zero because the tags differ has
\* written no byte of ms: the buffer holds what it held before the call.
C3_NoPlaintextOnFailure ==
    (variant = "M" /\ pc = "done" /\ mode = DECRYPT_MODE /\ clen >= TAGBYTES
     /\ ret # <<0>>) => ms = MsBefore

\* C4: Romulus-T is encrypt-then-MAC.  Encryption generates the tag after the
\* message pass, over the AD and the ciphertext it produced.  Decryption
\* generates the tag over the AD and the received ciphertext and compares all
\* 16 bytes before romulust_kdf and romulust_process_msg run; when the tags
\* differ it returns -1 and ms holds what it held before the call.
C4_Verified ==
    /\ Pos("compare") > 0 /\ trace[Pos("compare") + 1] = ToString(TAGBYTES)
    /\ Pos("generate_tag") > 0 /\ Pos("generate_tag") < Pos("compare")
    /\ vtmp = <<0>>

C4_RomulusT_EncryptThenMac ==
    variant = "T" =>
        /\ (mode = ENCRYPT_MODE /\ pc = "done") =>
              /\ trace = <<"encrypt", "kdf", "process_msg", "generate_tag">>
              /\ calls = <<[ad |-> ads, c |-> Blockat0(cs, 0, mlen)]>>
        /\ (mode = DECRYPT_MODE /\ clen >= TAGBYTES) =>
              /\ (Pos("kdf") > 0 \/ Pos("process_msg") > 0) => C4_Verified
              /\ ms # MsBefore => C4_Verified
              /\ Pos("compare") > 0 =>
                    calls = <<[ad |-> ads, c |-> Blockat0(cs, 0, clen - TAGBYTES)]>>
              /\ (pc = "done" /\ vtmp # <<0>>) =>
                    ret = <<-1>> /\ ms = MsBefore /\ Pos("kdf") = 0
                    /\ Pos("process_msg") = 0

C4_Witness ==
    /\ variant = "T" /\ pc = "done" /\ mode = DECRYPT_MODE /\ tamper = "tag"
    /\ mlen > BLOCKBYTES /\ adlen > 0
    /\ ret = <<-1>> /\ vtmp # <<0>> /\ ms = MsBefore

\* C5: crypto_aead_decrypt_shared of Romulus-M and Romulus-T called with
\* clen < 16 returns -1 at once: no share is unpacked, no tweakey schedule,
\* cipher call or tag computation runs, *mlen and ms are not written.
C5_ShortCiphertext ==
    (variant \in {"M", "T"} /\ mode = DECRYPT_MODE /\ clen < TAGBYTES
     /\ pc \notin {"m_dec", "t_dec"}) =>
        /\ pc = "done" /\ ret = <<-1>>
        /\ trace = <<"decrypt:short">> /\ calls = <<>>
        /\ mlen_out = NoValue /\ ms = MsBefore
        /\ k = Unset /\ k_m = Unset /\ npub = Unset /\ npub_m = Unset
        /\ state = Unset /\ state_m = Unset /\ tk1 = Unset
        /\ rtk_23 = NoTable /\ rtk_3m = NoTable /\ rtk1 = NoTable
        /\ vtmp = NoValue

C5_Witness ==
    /\ variant \in {"M", "T"} /\ mode = DECRYPT_MODE /\ tamper = "short"
    /\ clen < TAGBYTES /\ mlen > 0 /\ pc = "done" /\ ret = <<-1>>

\* C6: verify_tag of Romulus-N and Romulus-M returns 0 exactly when each of
\* the 16 tag bytes supplied equals that byte of G(state) XOR G(state_m), the
\* tag generate_tag writes from the same two shares; the loop visits all 16
\* bytes, whatever they are.
C6_VerifyStep ==
    pc \in {"n_verify_tag", "m_verify_tag"} =>
        LET tag == Blockat(cs, clen - TAGBYTES)
            g   == G(state)
            gm  == G(state_m)
        IN  /\ (vtmp' = <<0>>) <=> (\A i \in Blk : tag[i] = BitXor(g[i], gm[i]))
            /\ \A i \in Blk : generate_tag(state, state_m).c[i] = BitXor(g[i], gm[i])
            /\ (vtmp' = <<0>>) <=> (tag = generate_tag(state, state_m).c)
            /\ trace' = trace \o <<"verify_tag", ToString(TAGBYTES)>>

C6_VerifyTag == [][C6_VerifyStep]_vars

C6_Witness ==
    /\ variant \in {"N", "M"} /\ mode = DECRYPT_MODE /\ tamper = "tag"
    /\ pc \in {"n_ret", "m_ret"} /\ vtmp # <<0>>
    /\ Pos("verify_tag") > 0 /\ trace[Pos("verify_tag") + 1] = ToString(TAGBYTES)

\* C7: a call of Romulus-N or Romulus-M repeated with the same adlen, mlen and
\* mode on another key, nonce, AD, message or ciphertext and other masks takes
\* the same branches and makes the same UPDATE_CTR, tweakey-schedule and
\* cipher calls, in the same order.
C7_ConstantTimeStructure ==
    (variant \in {"N", "M"} /\ pc = "done" /\ replayed) => trace = prev_trace

C7_Witness ==
    /\ variant = "M" /\ pc = "done" /\ replayed /\ mode = DECRYPT_MODE
    /\ adlen > 2 * BLOCKBYTES /\ mlen > 2 * BLOCKBYTES
    /\ Len(trace) > 20 /\ trace = prev_trace /\ ret # <<0>>

\* C8: RHO called with out == in writes the same ciphertext block and leaves
\* the same state share, old state XOR plaintext block, as RHO called with
\* disjoint buffers.
C8_RhoInPlace ==
    (pc = "rho_done" /\ aliased) =>
        LET d == RHO(pre[1].x, pre[1].x_m, pre[1].in, FALSE)
        IN  /\ cs = d.y
            /\ state = d.x
            /\ state = XOR_BLOCK(pre[1].x, pre[1].in)

C10_AdvanceStep ==
    InCore => \/ Counter(tk1') = Counter(tk1)
              \/ Counter(tk1') = Counter(UPDATE_CTR(tk1))

C10_AdvanceOrMsgStep ==
    InCore => \/ Counter(tk1') = Counter(tk1)
              \/ Counter(tk1') = Counter(UPDATE_CTR(tk1))
              \/ /\ pc = "n_msg" \/ (pc = "m_msg" /\ mode = ENCRYPT_MODE)
                 /\ Counter(tk1') = InitialCounter

DomainsAt(ph) == {calls[i].tk1[7] : i \in {j \in 1..Len(calls) : calls[j].ph = ph}}
\* the TK1 values at the cipher calls of phase ph so far
Tk1At(ph) == {calls[i].tk1 : i \in {j \in 1..Len(calls) : calls[j].ph = ph}}

\* C11: at every moment of a Romulus-N or Romulus-M call, the domain bytes of
\* the AD/authentication-phase cipher calls lie in {0x08, 0x18, 0x1A}
\* (N) or {0x28, 0x2C, 0x30 XOR final_ad_domain} (M), those of the message
\* phase in {0x04, 0x14, 0x15} (N) or {0x24} (M), the two sets of domain bytes
\* met are disjoint, and no AD-phase call shares its TK1 with a message-phase
\* call.
C11_PhaseDomainSeparation ==
    variant \in {"N", "M"} =>
        /\ variant = "N" => /\ DomainsAt("ad") \subseteq {8, 24, 26}
                            /\ DomainsAt("msg") \subseteq {4, 20, 21}
        /\ variant = "M" =>
              /\ DomainsAt("ad") \subseteq
                     {40, 44, BitXor(48, final_ad_domain(adlen, mlen))}
              /\ DomainsAt("msg") \subseteq {36}
        /\ DomainsAt("ad") \cap DomainsAt("msg") = {}
        /\ Tk1At("ad") \cap Tk1At("msg") = {}

C11_Witness ==
    /\ variant = "M" /\ pc = "done" /\ mode = DECRYPT_MODE
    /\ adlen > 2 * BLOCKBYTES /\ mlen > 2 * BLOCKBYTES
    /\ 40 \in DomainsAt("ad") /\ 44 \in DomainsAt("ad")
    /\ BitXor(48, final_ad_domain(adlen, mlen)) \in DomainsAt("ad")
    /\ DomainsAt("msg") = {36}

\* ------------------------------------------------------------------- C12
\* the lengths two length pairs are compared over
DomainLens == 0..(2 * BLOCKBYTES * MaxBlocks)

\* the five cases of the claim for a length n
LenCase(n) ==
    LET l == n % (2 * BLOCKBYTES)
    IN  IF n = 0 THEN "empty"
        ELSE IF l = 0 THEN "even full"
        ELSE IF l = BLOCKBYTES THEN "odd full"
        ELSE IF l < BLOCKBYTES THEN "odd partial" ELSE "even partial"

\* the cases final_ad_domain tells apart: the empty input counts as an odd
\* number of blocks with a partial (0-byte) last block
LenCaseMerged(n) == IF n = 0 THEN "odd partial" ELSE LenCase(n)

\* romulusm_process_ad has returned: the last cipher call is its nonce call
AfterProcessAd == variant = "M" /\ pc \in {"m_gen_tag", "m_verify_tag"}

\* C12, as stated: when romulusm_process_ad has returned, the domain of its
\* last cipher call is 0x30 XOR final_ad_domain(adlen, mlen), and every
\* length pair whose AD or message is in another of the five cases has
\* another final_ad_domain byte.
C12_FinalDomainFiveCases ==
    AfterProcessAd =>
        /\ calls[Len(calls)].tk1[7] = BitXor(48, final_ad_domain(adlen, MsgLen))
        /\ \A al2 \in DomainLens, ml2 \in DomainLens :
              (LenCase(al2) # LenCase(adlen) \/ LenCase(ml2) # LenCase(MsgLen))
                  => final_ad_domain(al2, ml2) # final_ad_domain(adlen, MsgLen)

\* C12, amended: the same with the empty input and the odd number of blocks
\* with a partial last block taken as one case (four cases per length).
C12_FinalDomainFourCases ==
    AfterProcessAd =>
        /\ calls[Len(calls)].tk1[7] = BitXor(48, final_ad_domain(adlen, MsgLen))
        /\ \A al2 \in DomainLens, ml2 \in DomainLens :
              (LenCaseMerged(al2) # LenCaseMerged(adlen)
                 \/ LenCaseMerged(ml2) # LenCaseMerged(MsgLen))
                  => final_ad_domain(al2, ml2) # final_ad_domain(adlen, MsgLen)

C12_Witness ==
    /\ AfterProcessAd /\ mode = DECRYPT_MODE
    /\ LenCase(adlen) = "even partial" /\ LenCase(MsgLen) = "odd full"
    /\ calls[Len(calls)].ph = "ad"
    /\ calls[Len(calls)].tk1[7] = BitXor(48, final_ad_domain(adlen, MsgLen))

\* ------------------------------------------------------------------- C13
\* C13: after every layer of the sbox macro the four first-share registers
\* XOR the four second-share registers equal the registers of the same
\* sequence run without masking on the XOR of the input shares.
C13_SboxMaskingCorrect ==
    pc \in {SboxLayers[n] : n \in 2..Len(SboxLayers)} =>
        /\ BitXor(regs["r2"], regs["r10"]) = pre[1]["r2"]
        /\ BitXor(regs["r3"], regs["r11"]) = pre[1]["r3"]
        /\ BitXor(regs["r4"], regs["r12"]) = pre[1]["r4"]
        /\ BitXor(regs["r5"], regs["r14"]) = pre[1]["r5"]

C13_Witness ==
    /\ pc = "sbox_done" /\ Len(trace) = Len(SboxCode)
    /\ regs["r10"] # 0 /\ regs["r11"] # 0 /\ regs["r12"] # 0 /\ regs["r14"] # 0
    /\ pre[1]["r2"] # pre[1]["r3"]
    /\ BitXor(regs["r2"], regs["r10"]) = pre[1]["r2"]
    /\ BitXor(regs["r5"], regs["r14"]) = pre[1]["r5"]

\* ------------------------------------------------------------------- C14
\* the value instruction n of gadget g writes when the unmasked values are x
\* and y and the masks are x2 and y2
Written(g, n, x, y, x2, y2) ==
    LET code == GadgetCode(g)
    IN  RunTo(GadgetRegs(BitXor(x, x2), x2, BitXor(y, y2), y2), code, n)[code[n].d]

\* the distribution of the value instruction n writes over the equally likely
\* mask draws: how many draws give each value
Draws(g, n, x, y) ==
    LET w == Mat([m \in Lane \X Lane |-> Written(g, n, x, y, m[1], m[2])])
    IN  Mat([v \in Lane |-> Cardinality({m \in Lane \X Lane : w[m] = v})])

\* no later instruction of gadget g writes the register instruction n writes
LastWrite(g, n) ==
    LET code == GadgetCode(g)
    IN  \A j \in (n + 1)..Len(code) : code[j].d # code[n].d

\* the unmasked values of the running gadget
SecretX == BitXor(pre[1]["x1"], pre[1]["x2"])
SecretY == BitXor(pre[1]["y1"], pre[1]["y2"])

\* the gadget that runs or has run
RunningGadget ==
    CASE pc \in {"secand", "secand_done"} -> "secand"
      [] pc \in {"secorr", "secorr_done"} -> "secorr"
      [] pc \in {"secxor", "secxor_done"} -> "secxor"
      [] OTHER -> None

\* C14: in secand and secorr, with the masks x2 and y2 drawn uniformly and
\* independently, the value every instruction writes (both tmp values, the
\* partial AND/OR terms, z1 and z2) is the one the gadget's code gives and has
\* the same distribution for the unmasked pair (x, y) at hand as for every
\* other pair; each output share z1 and z2 is uniform; and no instruction
\* writes x, y, x AND y or x OR y whatever the masks are.
C14_FirstOrderSecure ==
    (RunningGadget \in {"secand", "secorr"} /\ trace # <<>>) =>
        LET g    == RunningGadget
            n    == Len(trace)
            here == Draws(g, n, SecretX, SecretY)
        IN  /\ trace[n] = Written(g, n, SecretX, SecretY, pre[1]["x2"], pre[1]["y2"])
            /\ \A x \in Lane, y \in Lane : Draws(g, n, x, y) = here
            /\ (GadgetCode(g)[n].d \in {"z1", "z2"} /\ LastWrite(g, n)) =>
                  \A v \in Lane :
                     here[v] * Cardinality(Lane) = Cardinality(Lane \X Lane)
            /\ \A f \in {SecretX, SecretY, BitAnd(SecretX, SecretY),
                         BitOr(SecretX, SecretY)} :
                  \E v \in Lane : v # f /\ here[v] > 0

C14_Witness ==
    /\ pc = "secorr_done" /\ Len(trace) = Len(GadgetCode("secorr"))
    /\ SecretX # 0 /\ SecretY # 0 /\ SecretX # SecretY
    /\ pre[1]["x2"] # 0 /\ pre[1]["y2"] # 0
    /\ trace[Len(trace)] = regs["z2"]

\* ------------------------------------------------------------------- C15
\* the masked arrays of the variant whose shares were generated
MaskedArrays == IF variant = "T" THEN {"npubs", "ks"} ELSE {"ks"}
SharesOf(arr) == IF arr = "ks" THEN ks ELSE npubs
SecretOf(arr) == IF arr = "ks" THEN pre[1].k ELSE pre[1].npub

\* C15: after generate_shares_* and shares_to_bytearr_2, for every word of a
\* masked input shares[0] XOR shares[1] is the secret word whatever
\* randombytes returned; shares[1] holds the 4 bytes of the one randombytes
\* call made for that word, and there are no other calls; and
\* k[j] XOR k_m[j] is key byte j for all 16 j.
C15_ShareSplitting ==
    pc = "gs_done" =>
        /\ \A arr \in MaskedArrays, i \in 0..3 :
              /\ WXor(SharesOf(arr)[i].shares[1], SharesOf(arr)[i].shares[2])
                     = LoadWord(SecretOf(arr), i)
              /\ Cardinality({j \in FillsOf(arr) : trace[j].word = i}) = 1
              /\ \A j \in FillsOf(arr) :
                    trace[j].word = i =>
                        /\ DOMAIN trace[j].bytes = 0..3
                        /\ SharesOf(arr)[i].shares[2] = LoadWord(trace[j].bytes, 0)
        /\ Len(trace) = 4 * Cardinality(MaskedArrays)
        /\ \A j \in Blk : BitXor(k[j], k_m[j]) = pre[1].k[j]

C15_Witness ==
    /\ pc = "gs_done" /\ variant = "T" /\ Len(trace) = 8
    /\ trace[1].bytes = trace[5].bytes /\ trace[1].bytes # trace[2].bytes
    /\ k # pre[1].k /\ k_m # ZeroBlock
    /\ \A j \in Blk : BitXor(k[j], k_m[j]) = pre[1].k[j]

C17_GadgetsCorrect ==
    /\ pc = "secand_done" =>
          BitXor(regs["z1"], regs["z2"]) = BitAnd(SecretX, SecretY)
    /\ pc = "secorr_done" =>
          BitXor(regs["z1"], regs["z2"]) = BitOr(SecretX, SecretY)
    /\ pc = "secxor_done" =>
          BitXor(regs["z1"], regs["z2"]) = BitXor(SecretX, SecretY)

C17_Witness ==
    /\ pc = "secand_done" /\ Len(trace) = Len(GadgetCode("secand"))
    /\ pre[1]["x2"] # 0 /\ pre[1]["y2"] # 0 /\ pre[1]["x1"] # pre[1]["y1"]
    /\ BitAnd(SecretX, SecretY) # 0 /\ SecretX # SecretY
    /\ BitXor(regs["z1"], regs["z2"]) = BitAnd(SecretX, SecretY)

\* ------------------------------------------------- padding of the last AD block
\* AD lengths that end in a partial block: a partial single block (1..15),
\* a partial double block (17..31), one looped double block and 1 byte (33)
PadLens == {n \in 1..(2 * BLOCKBYTES + 1) : n % BLOCKBYTES # 0}

\* crypto_aead_encrypt of Romulus-N / Romulus-M entered with adlen in PadLens
\* and an empty message
InitPad ==
    /\ variant \in {"N", "M"} /\ mode = ENCRYPT_MODE /\ seed = 1 /\ mseed = 1
    /\ tamper = None /\ replayed = FALSE
    /\ adlen \in PadLens /\ mlen = 0 /\ clen = 0
    /\ ads = AdBytes(1, adlen) /\ npubs = NonceArg(variant, 1, 1)
    /\ ks = SplitShares(KeyBytes(1), RandomBytes(1, 2))
    /\ ms = MsgBytes(1, 0) /\ cs = Garbage(1, TAGBYTES)
    /\ clen_out = NoValue /\ mlen_out = NoValue /\ ret = NoValue
    /\ pc = Entry(variant, ENCRYPT_MODE) /\ cont = <<>>
    /\ k = Unset /\ k_m = Unset /\ npub = Unset /\ npub_m = Unset
    /\ state = Unset /\ state_m = Unset /\ tk1 = Unset
    /\ rtk_23 = NoTable /\ rtk_3m = NoTable /\ rtk1 = NoTable
    /\ a_off = 0 /\ a_len = 0 /\ m_off = 0 /\ m_len = 0
    /\ io_off = 0 /\ inlen = 0 /\ final_domain = 0 /\ vtmp = NoValue
    /\ trace = <<>> /\ calls = <<>>
    /\ prev_trace = <<>> /\ enc_calls = <<>> /\ enc_cs = Unset /\ plain = MsgBytes(1, 0)
    /\ aliased = FALSE /\ pre = NoValue /\ regs = NoValue

\* the wrapper, the initialisation and the blocks of process_ad that such a
\* length runs through
NextPad ==
    \/ n_encrypt \/ romulusn_init \/ n_ad_start
    \/ n_ad_double \/ n_ad_double_next
    \/ n_ad_partial_double \/ n_ad_partial_double_next
    \/ n_ad_partial_single \/ n_ad_final
    \/ m_encrypt \/ romulusm_init \/ m_ad_entry
    \/ m_ad_double \/ m_ad_double_next
    \/ m_ad_partial_double \/ m_ad_double_done
    \/ m_ad_single \/ m_ad_fold_partial

SpecPad == InitPad /\ [][NextPad]_vars

\* L data bytes of buf from off, then zeros, byte 15 equal to L
Padded(buf, off, L) ==
    Mat([i \in Blk |-> IF i < L THEN buf[off + i] ELSE IF i = 15 THEN L ELSE 0])

\* the step of a left-over partial double block / partial single block
PartialDoubleStep == pc \in {"n_ad_loop", "m_ad_loop"} /\ pc' \in {"n_ad_pd2", "m_ad_d2"}
PartialSingleStep == pc \in {"n_ad_loop", "m_ad_loop"} /\ pc' \in {"n_ad_final", "m_ad_fold"}

C18_PadStep ==
    /\ PartialDoubleStep =>
          /\ a_len - BLOCKBYTES \in 1..15
          /\ rtk_23'.tk2 = Padded(ads, a_off + BLOCKBYTES, a_len - BLOCKBYTES)
          /\ calls'[Len(calls')].x = XorBytes(Unmask(state, state_m), Blockat(ads, a_off))
    /\ PartialSingleStep =>
          /\ a_len \in 1..15
          /\ state' = XorBytes(state, Padded(ads, a_off, a_len))
          /\ state_m' = state_m
          /\ adlen = 2 * BLOCKBYTES + 1 =>
                /\ a_off = 2 * BLOCKBYTES /\ a_len = 1
                /\ Len(calls) = 1
                /\ calls[1].x = Blockat(ads, 0)
                /\ rtk_23.tk2 = Blockat(ads, BLOCKBYTES)
                /\ BitXor(state'[15], state[15]) = 1

\* C18: a final partial AD block of L valid bytes, 1 <= L <= 15, enters the
\* computation as the L data bytes, then zeros, with byte 15 equal to L: as
\* the TK2 input of a partial double block and as the block XORed into the
\* state of a partial single block; 33 bytes of AD are one full double block
\* and a 1-byte final block contributing 1 to byte 15 of the state.
C18_LengthDependentPadding == [][C18_PadStep]_vars

C18_Witness ==
    /\ adlen = 2 * BLOCKBYTES + 1 /\ variant = "N" /\ pc = "n_ad_final"
    /\ Len(calls) = 1 /\ a_len = 1 /\ a_off = 2 * BLOCKBYTES
    /\ rtk_23.tk2 = Blockat(ads, BLOCKBYTES)
    /\ trace[Len(trace) - 1] = "ad:partial-single"

\* number of UPDATE_CTR executions the running call has logged
CtrCount == Cardinality({i \in 1..Len(trace) : trace[i] \in {"UPDATE_CTR", "UPDATE_CTR+0x95"}})

\* ceil(n / 16)
BlocksOf(n) == (n + BLOCKBYTES - 1) \div BLOCKBYTES

\* romulusn_process_ad has returned, romulusn_process_msg is about to start
AfterProcessAdN == variant = "N" /\ pc = "n_msg"

\* C19: for every adlen, romulusn_process_ad executes UPDATE_CTR exactly
\* max(1, ceil(adlen/16)) times and calls the cipher exactly
\* floor(ceil(adlen/16)/2) + 1 times, the last call being the nonce call.
C19_CounterAdvancePerBlock ==
    AfterProcessAdN =>
        /\ CtrCount = (IF adlen = 0 THEN 1 ELSE BlocksOf(adlen))
        /\ Len(calls) = (BlocksOf(adlen) \div 2) + 1
        /\ \A i \in 1..Len(calls) : calls[i].ph = "ad"
        /\ rtk_23.tk2 = npub
        /\ trace[Len(trace)] = "skinny128_384_plus"

C19_Witness ==
    /\ AfterProcessAdN /\ adlen = 2 * BLOCKBYTES + 15
    /\ CtrCount = 3 /\ Len(calls) = 2 /\ rtk_23.tk2 = npub

\* ------------------------------------------------------------------- C20
\* the three cases of the claim for a message length n
MsgCase(n) == IF n = 0 THEN "empty" ELSE IF n % BLOCKBYTES = 0 THEN "full" ELSE "partial"

\* the cases romulusn_process_msg tells apart at its last cipher call
MsgCaseMerged(n) == IF n # 0 /\ n % BLOCKBYTES = 0 THEN "full" ELSE "partial"

\* the domain romulusn_process_msg sets before its last cipher call:
\* inlen == 0 -> 0x15; last block shorter than BLOCKBYTES -> 0x15, else 0x14
FinalMsgDomain(n) ==
    LET last == IF n % BLOCKBYTES = 0 THEN BLOCKBYTES ELSE n % BLOCKBYTES
    IN  IF n = 0 THEN 21 ELSE IF last < BLOCKBYTES THEN 21 ELSE 20

\* romulusn_process_msg has returned
AfterProcessMsgN == variant = "N" /\ pc \in {"n_gen_tag", "n_verify_tag"}

\* the cipher calls of the message pass, in order
MsgCalls == SelectSeq(calls, LAMBDA c : c.ph = "msg")

\* the last cipher call of the message pass carries FinalMsgDomain, the ones
\* before it 0x04
MsgDomainsAsCoded ==
    /\ MsgCalls # <<>>
    /\ MsgCalls[Len(MsgCalls)].tk1[7] = FinalMsgDomain(MsgLen)
    /\ \A i \in 1..(Len(MsgCalls) - 1) : MsgCalls[i].tk1[7] = 4

\* C20, as stated: at the final cipher call of romulusn_process_msg the
\* domain byte in tk1[7] is a distinct constant for each of the cases empty
\* message, full last block and partial last block, and all non-final
\* message blocks use 0x04.
C20_MessageDomainThreeCases ==
    AfterProcessMsgN =>
        /\ MsgDomainsAsCoded
        /\ \A n \in DomainLens :
              MsgCase(n) # MsgCase(MsgLen) => FinalMsgDomain(n) # FinalMsgDomain(MsgLen)

\* C20, amended: the same with the empty message and the partial last block
\* taken as one case (0x15), apart from the full last block (0x14).
C20_MessageDomainTwoCases ==
    AfterProcessMsgN =>
        /\ MsgDomainsAsCoded
        /\ \A n \in DomainLens :
              (MsgCaseMerged(n) # MsgCaseMerged(MsgLen))
                 <=> (FinalMsgDomain(n) # FinalMsgDomain(MsgLen))

C20_Witness ==
    /\ AfterProcessMsgN /\ mode = ENCRYPT_MODE /\ MsgLen = 2 * BLOCKBYTES
    /\ Len(MsgCalls) = 2
    /\ MsgCalls[1].tk1[7] = 4 /\ MsgCalls[2].tk1[7] = 20

\* ------------------------------------------------------------------- C21
\* the left-over AD after the double-block loop is at most one block
FoldCase(al) == al = 0 \/ (al % (2 * BLOCKBYTES)) \in 1..BLOCKBYTES

\* the next 16 bytes of buf from off, or the n < 16 left, padded with n
Chunk(buf, off, n) == IF n >= BLOCKBYTES THEN Blockat(buf, off) ELSE Padded(buf, off, n)

\* the block a cipher step XORs into the state before the call
XorIn == XorBytes(calls'[Len(calls')].x, Unmask(state, state_m))

C21_FoldStep ==
    \* the else branch of romulusm_process_ad: the message completes the AD block
    /\ pc = "m_ad_fold" =>
          /\ FoldCase(adlen) /\ BitAnd(final_ad_domain(adlen, MsgLen), 8) = 0
          /\ m_off = 0 /\ m_len = MsgLen
          /\ Len(calls') = Len(calls) + 1 /\ calls'[Len(calls')].ph = "ad"
          /\ rtk_23'.tk2 = Chunk(ms, 0, MsgLen)
          /\ IF MsgLen >= BLOCKBYTES
             THEN m_off' = BLOCKBYTES /\ m_len' = MsgLen - BLOCKBYTES
             ELSE m_len' = 0
    \* the double-block branches: the message is untouched so far
    /\ pc = "m_ad_d2" =>
          /\ ~FoldCase(adlen) /\ BitAnd(final_ad_domain(adlen, MsgLen), 8) = 8
          /\ m_off = 0 /\ m_len = MsgLen
          /\ m_off' = 0 /\ m_len' = MsgLen
    \* the message blocks: each takes the bytes that follow the ones taken
    /\ pc = "m_m_loop" =>
          /\ m_len = 0 \/ m_off + m_len = MsgLen
          /\ IF m_len > BLOCKBYTES
             THEN /\ XorIn = Blockat(ms, m_off)
                  /\ rtk_23'.tk2 = Chunk(ms, m_off + BLOCKBYTES, m_len - BLOCKBYTES)
                  /\ m_len > 2 * BLOCKBYTES <=> pc' = "m_m_loop2"
             ELSE /\ state' = XorBytes(state, Chunk(ms, m_off, m_len))
                  /\ calls' = calls /\ pc' = "m_ad_final"
    /\ pc = "m_m_loop2" =>
          /\ m_off' = m_off + 2 * BLOCKBYTES /\ m_len' = m_len - 2 * BLOCKBYTES
          /\ calls' = calls /\ state' = state
    \* the nonce call takes no message byte
    /\ pc = "m_ad_final" => XorIn = [i \in Blk |-> 0] /\ rtk_23'.tk2 = npub

\* C21: romulusm_process_ad uses the leading message bytes (16, or the whole
\* message padded with its length) as the TK2 input of an AD-phase cipher
\* call exactly when the AD is empty or 1 <= adlen mod 32 <= 16, i.e. when
\* bit 0x08 of final_ad_domain's AD part is clear; otherwise the message is
\* absorbed from its first byte as state input; every message byte is
\* absorbed exactly once.
C21_MessageFolding == [][C21_FoldStep]_vars

C21_Witness ==
    /\ variant = "M" /\ pc = "m_ad_final" /\ mode = ENCRYPT_MODE
    /\ adlen = BLOCKBYTES - 1 /\ mlen = 3 * BLOCKBYTES - 1
    /\ m_off = BLOCKBYTES /\ m_len = BLOCKBYTES - 1
    /\ Len(calls) = 2 /\ rtk_23.tk2 = Padded(ms, 2 * BLOCKBYTES, BLOCKBYTES - 1)

\* ------------------------------------------------------------------- C22
\* last position of event e in the trace of the running call, 0 if none
LastPos(e) ==
    IF \E i \in 1..Len(trace) : trace[i] = e
    THEN CHOOSE i \in 1..Len(trace) : trace[i] = e /\ \A j \in (i + 1)..Len(trace) : trace[j] # e
    ELSE 0

\* the cipher calls of one phase, in order
PhaseCalls(cl, ph) == SelectSeq(cl, LAMBDA c : c.ph = ph)

\* crypto_aead_decrypt_shared of Romulus-M past its length check
MDecrypting == variant = "M" /\ mode = DECRYPT_MODE /\ clen >= TAGBYTES

\* C22: crypto_aead_decrypt_shared of Romulus-M first runs the message pass,
\* which starts from the supplied tag as state and recovers all plaintext,
\* then resets state, state mask and TK1 with romulusm_init, then runs the
\* authentication pass over the AD and the recovered plaintext, and only then
\* compares tags; the authentication pass does not depend on the state or
\* counter the message pass left (it makes the cipher calls of encryption's).
C22_TwoPassDecryption ==
    MDecrypting =>
        \* the message pass starts from the tag, before any cipher call
        /\ pc = "m_msg_br" =>
              /\ Unmask(state, state_m) = Blockat(cs, MsgLen)
              /\ calls = <<>> /\ LastPos("ad") = 0
        \* the authentication pass starts from the values of romulusm_init
        /\ pc = "m_ad" =>
              /\ state = ZeroBlock /\ state_m = ZeroBlock
              /\ tk1 = [i \in Blk |-> IF i = 0 THEN 1 ELSE 0]
              /\ trace[Len(trace)] = "init" /\ LastPos("init") > Pos("msg")
              /\ Pos("msg:empty") + Pos("msg:last") > Pos("msg")
              /\ PhaseCalls(calls, "ad") = <<>>
              /\ Len(calls) = BlocksOf(MsgLen)
              /\ (tamper = "intact" /\ ~replayed) => ms = plain
        \* the tags are compared after the authentication pass
        /\ pc \in {"m_verify_tag", "m_ret", "done"} =>
              /\ 0 < Pos("msg") /\ Pos("msg") < LastPos("init")
              /\ LastPos("init") < Pos("ad")
              /\ Pos("verify_tag") = 0 \/ LastPos("ad") < Pos("verify_tag")
              /\ pc = "m_verify_tag" <=> Pos("verify_tag") = 0
              /\ (tamper = "intact" /\ ~replayed) =>
                    PhaseCalls(calls, "ad") = PhaseCalls(enc_calls, "ad")

C22_Witness ==
    /\ MDecrypting /\ pc = "done" /\ tamper = "intact" /\ ~replayed
    /\ adlen = 2 * BLOCKBYTES - 1 /\ MsgLen = 3 * BLOCKBYTES - 1
    /\ Pos("msg") < LastPos("init") /\ LastPos("init") < Pos("ad")
    /\ LastPos("ad") < Pos("verify_tag")
    /\ Len(PhaseCalls(calls, "msg")) = 3 /\ Len(PhaseCalls(calls, "ad")) = 3
    /\ ms = plain /\ ret = <<0>>

\* ------------------------------------------------------------------- C23
\* the tables tk_schedule_23 / tk_schedule_123 compute from the nonce as TK2
\* and the two key shares
NonceTables == tk_schedule_23(npub, k, k_m)
TablesReady == rtk_23 = NonceTables.rtk_23 /\ rtk_3m = NonceTables.rtk_3m

\* inside romulusn_process_msg / romulusm_process_msg
InMsgPass ==
    \/ variant = "N" /\ pc \in {"n_msg", "n_msg_br", "n_msg_loop", "n_msg_final"}
    \/ variant = "M" /\ pc \in {"m_msg", "m_msg_br", "m_msg_loop"}

\* C23: for every adlen (and mlen), the last tweakey schedule inside process_ad
\* takes the nonce as TK2 with both key shares: on return rtk and rtk_m are the
\* tables of (nonce, key share, key mask), the ones message processing uses,
\* never tables left from an AD or message block.
C23_TablesReadyAfterAd ==
    /\ (AfterProcessAd \/ AfterProcessAdN) =>
          /\ TablesReady
          /\ calls # <<>> /\ calls[Len(calls)].ph = "ad"
          /\ trace[Len(trace) - 1] = "tk_schedule_123"
    /\ InMsgPass => TablesReady

C23_Witness ==
    /\ AfterProcessAd /\ mode = ENCRYPT_MODE /\ TablesReady
    /\ adlen = 2 * BLOCKBYTES /\ mlen = 2 * BLOCKBYTES
    /\ Len(calls) = 3
    /\ rtk_23.tk2 # Blockat(ms, BLOCKBYTES) /\ rtk_23.tk2 # Blockat(ads, BLOCKBYTES)

\* ------------------------------------------------------------------- C24
\* tk1 as the message pass starts from it, after n executions of UPDATE_CTR
RECURSIVE CtrPow(_)
CtrPow(n) == IF n = 0 THEN Mat([i \in Blk |-> IF i = 0 THEN 1 ELSE 0])
             ELSE UPDATE_CTR(CtrPow(n - 1))

C24_MsgStep ==
    InMsgPass =>
        /\ rtk_23' = rtk_23 /\ rtk_3m' = rtk_3m
        /\ IF Len(calls') = Len(calls) + 1
           THEN LET c == calls'[Len(calls')]
                    j == Len(PhaseCalls(calls', "msg"))
                IN  /\ c.ph = "msg"
                    /\ rtk1' = tks_perm_1(c.tk1)
                    /\ state_m' = skinny128_384_plus(state, state_m, rtk_23, rtk_3m,
                                                     rtk1').ctext_m
                    /\ Counter(c.tk1) = Counter(CtrPow(IF variant = "N" THEN j ELSE j - 1))
                    /\ c.tk1[7] = (IF variant = "M" THEN 36
                                   ELSE IF pc' = "n_msg_loop" THEN 4
                                   ELSE FinalMsgDomain(MsgLen))
           ELSE calls' = calls /\ rtk1' \in {rtk1, NoTable}

\* C24: romulusn_process_msg and romulusm_process_msg never write the rtk and
\* rtk_m tables; before each cipher call only rtk1 is recomputed with
\* tk_schedule_1 from the current tk1, so every message-phase cipher call uses
\* the same rtk and rtk_m and a TK1 table matching the counter and domain of
\* that block.
C24_MsgPassKeepsKeyTables == [][C24_MsgStep]_vars

C24_Witness ==
    /\ variant = "M" /\ mode = DECRYPT_MODE /\ pc = "m_msg_loop"
    /\ Len(calls) = 2 /\ TablesReady
    /\ rtk1 = tks_perm_1(calls[2].tk1) /\ calls[2].tk1 # calls[1].tk1
    /\ calls[2].tk1 # tk1 /\ calls[2].tk1[7] = 36

\* --------------------------------------- skinny128_384_plus_m, macro by macro
\* Data registers hold 32-bit words (bit n at index n); address registers and
\* the stack slots of the arguments hold an array and a byte offset into it.
ArrayBytes == [c |-> BLOCKBYTES, c_m |-> BLOCKBYTES, p |-> BLOCKBYTES, p_m |-> BLOCKBYTES,
               rtk |-> SKINNY128_384_ROUNDS * BLOCKBYTES,
               rtk_m |-> SKINNY128_384_ROUNDS * BLOCKBYTES,
               rtk1 |-> TKPERMORDER * BLOCKBYTES]
Ptr(arr, off) == [arr |-> arr, off |-> off]

\* the word at index j of array arr, for the inputs numbered sd
ArrayWord(sd, arr, j) ==
    LET t == CASE arr = "p" -> 1 [] arr = "p_m" -> 2 [] arr = "rtk" -> 3
               [] arr = "rtk_m" -> 4 [] OTHER -> 5
    IN  Mat([n \in WBits |-> ((sd + t) * (n + 1) + j * (n + 3) + ((n * n + j * t) \div 3)) % 2])

WNot(a) == Mat([n \in WBits |-> 1 - a[n]])
WRor(a, s) == Mat([n \in WBits |-> a[(n + s) % 32]])

\* loads, stores, constants and pointer arithmetic of the function
Ldr(d, a, imm, wb) == [op |-> "ldr", d |-> d, a |-> a, imm |-> imm, wb |-> wb]
LdrSp(d, off)      == [op |-> "ldrsp", d |-> d, off |-> off]
StrSp(d, off)      == [op |-> "strsp", d |-> d, off |-> off]
Str(d, a, imm)     == [op |-> "str", d |-> d, a |-> a, imm |-> imm]
Movw(d, b0, b1)    == [op |-> "movw", d |-> d, w |-> WordConst(b0, b1, 0, 0)]
Movt(d, b2, b3)    == [op |-> "movt", d |-> d, w |-> WordConst(0, 0, b2, b3)]
SubImm(d, a, imm)  == [op |-> "sub", d |-> d, a |-> a, imm |-> imm]

\* the machine [sd, r, sp, out, rd] after one instruction: registers, stack
\* slots by offset, words stored, loads made from the arrays
WExec(m, ins) ==
    CASE ins.op \in {"eor", "and", "orr", "orn", "mvn"} ->
            LET b   == m.r[ins.b]
                op2 == CASE ins.shift = "lsr" -> WShr(b, ins.sh)
                         [] ins.shift = "ror" -> WRor(b, ins.sh)
                         [] OTHER             -> WShl(b, ins.sh)
                v   == CASE ins.op = "eor" -> WXor(m.r[ins.a], op2)
                         [] ins.op = "and" -> WAnd(m.r[ins.a], op2)
                         [] ins.op = "orr" -> WOr(m.r[ins.a], op2)
                         [] ins.op = "orn" -> WOr(m.r[ins.a], WNot(op2))
                         [] ins.op = "mvn" -> WNot(op2)
            IN  [m EXCEPT !.r[ins.d] = v]
      [] ins.op = "ldr" ->
            LET base == m.r[ins.a]
                off  == base.off + ins.imm
                \* a load outside the array has no defined value
                v    == IF off >= 0 /\ off + 4 <= ArrayBytes[base.arr]
                        THEN ArrayWord(m.sd, base.arr, off \div 4)
                        ELSE WordConst(0, 0, 0, 0)
                r1   == [m.r EXCEPT ![ins.a] = Ptr(base.arr, base.off + ins.wb)]
            IN  [m EXCEPT !.r = [r1 EXCEPT ![ins.d] = v],
                          !.rd = Append(m.rd, [arr |-> base.arr, off |-> off, d |-> ins.d])]
      [] ins.op = "ldrsp" -> [m EXCEPT !.r[ins.d] = m.sp[ins.off]]
      [] ins.op = "strsp" -> [m EXCEPT !.sp[ins.off] = m.r[ins.d]]
      [] ins.op = "str" ->
            [m EXCEPT !.out = Append(m.out, [arr |-> m.r[ins.a].arr,
                                             off |-> m.r[ins.a].off + ins.imm,
                                             w |-> m.r[ins.d]])]
      [] ins.op = "movw" -> [m EXCEPT !.r[ins.d] = ins.w]
      [] ins.op = "movt" ->
            [m EXCEPT !.r[ins.d] = WOr(WAnd(m.r[ins.d], WordConst(255, 255, 0, 0)), ins.w)]
      [] ins.op = "sub" ->
            [m EXCEPT !.r[ins.d] = Ptr(m.r[ins.a].arr, m.r[ins.a].off - ins.imm)]

\* the machine after the instructions code[lo..hi], in order (the first half
\* is computed before the second half is entered)
RECURSIVE WRunRange(_, _, _, _)
WRunRange(m, code, lo, hi) ==
    IF lo > hi THEN m
    ELSE IF lo = hi THEN WExec(m, code[lo])
    ELSE LET mid == (lo + hi) \div 2
             m1  == WRunRange(m, code, lo, mid)
         IN  IF m1.sd = m.sd THEN WRunRange(m1, code, mid + 1, hi) ELSE m1
WRun(m, code) == WRunRange(m, code, 1, Len(code))

\* mixcol in0, in1, in2, in3, idx0..idx5 (r7 holds the bitmask, r8 is scratch)
mixcol(in0, in1, in2, in3, idx0, idx1, idx2, idx3, idx4, idx5) ==
    LET one(x) == << InsSh("and", "r8", "r7", x, "ror", idx0),
                     InsSh("eor", x, x, "r8", "ror", idx1),
                     InsSh("and", "r8", "r7", x, "ror", idx2),
                     InsSh("eor", x, x, "r8", "ror", idx3),
                     InsSh("and", "r8", "r7", x, "ror", idx4),
                     InsSh("eor", x, x, "r8", "ror", idx5) >>
    IN  one(in0) \o one(in1) \o one(in2) \o one(in3)

\* rtk_123 with the rtk1 word left out of the first state word
rtk_123_NoTk1Word ==
    << LdrSp("r9", 64),
       Ldr("r0", "r1", 0, 4), Ldr("r8", "r9", 0, 4),
       Ins("eor", "r2", "r2", "r0"),
       Ldr("r0", "r1", 0, 4), Ldr("r8", "r9", 0, 4),
       Ins("eor", "r3", "r3", "r0"), Ins("eor", "r3", "r3", "r8"),
       Ldr("r0", "r1", 0, 4), Ldr("r8", "r9", 0, 4),
       Ins("eor", "r4", "r4", "r0"), Ins("eor", "r4", "r4", "r8"),
       Ldr("r8", "r9", 0, 4), Ldr("r0", "r1", 0, 4),
       StrSp("r9", 64),
       Ins("eor", "r5", "r5", "r0"), Ins("eor", "r5", "r5", "r8") >>

\* rtk_123: rtk2 ^ rtk3 (pointer in r1) and rtk1 (pointer at [sp, #64])
rtk_123 ==
    << LdrSp("r9", 64),
       Ldr("r0", "r1", 0, 4), Ldr("r8", "r9", 0, 4),
       Ins("eor", "r2", "r2", "r0"), Ins("eor", "r2", "r2", "r8"),
       Ldr("r0", "r1", 0, 4), Ldr("r8", "r9", 0, 4),
       Ins("eor", "r3", "r3", "r0"), Ins("eor", "r3", "r3", "r8"),
       Ldr("r0", "r1", 0, 4), Ldr("r8", "r9", 0, 4),
       Ins("eor", "r4", "r4", "r0"), Ins("eor", "r4", "r4", "r8"),
       Ldr("r8", "r9", 0, 4), Ldr("r0", "r1", 0, 4),
       StrSp("r9", 64),
       Ins("eor", "r5", "r5", "r0"), Ins("eor", "r5", "r5", "r8") >>

\* the macro rtk_3m: masked round tweakeys (pointer at [sp, #60])
rtk_3m_add ==
    << LdrSp("r0", 60),
       Ldr("r9", "r0", 4, 0), Ldr("r8", "r0", 0, 8),
       Ins("eor", "r11", "r11", "r9"), Ins("eor", "r10", "r10", "r8"),
       Ldr("r9", "r0", 4, 0), Ldr("r8", "r0", 0, 8),
       StrSp("r0", 60),
       Ins("eor", "r14", "r14", "r9"), Ins("eor", "r12", "r12", "r8") >>

\* dec_rtk1 that winds the pointer back by half of the table
dec_rtk1_HalfTable == << LdrSp("r9", 64), SubImm("r9", "r9", 128), StrSp("r9", 64) >>

dec_rtk1 == << LdrSp("r9", 64), SubImm("r9", "r9", 256), StrSp("r9", 64) >>

\* one macro invocation of the function body
Mac(name, code) == [mac |-> name, code |-> code]
Flat(layers) == layers[1] \o layers[2] \o layers[3] \o layers[4]

quadruple_round ==
    LET sb0 == Mac("sbox", Flat(sbox("r2", "r3", "r4", "r5", "r10", "r11", "r12", "r14",
                                     "r8", "r9", "r6")))
        sb1 == Mac("sbox", Flat(sbox("r4", "r5", "r2", "r3", "r12", "r14", "r10", "r11",
                                     "r8", "r9", "r6")))
        add == << Mac("rtk_123", rtk_123), Mac("rtk_3m", rtk_3m_add) >>
        mc(a, b, c, d, e, f) ==
            << Mac("mixcol", mixcol("r2", "r3", "r4", "r5", a, b, c, d, e, f)),
               Mac("mixcol", mixcol("r10", "r11", "r12", "r14", a, b, c, d, e, f)) >>
    IN  <<sb0>> \o add \o mc(30, 24, 18, 2, 6, 4)
        \o <<sb1>> \o add \o mc(16, 30, 28, 0, 16, 2)
        \o <<sb0>> \o add \o mc(10, 4, 6, 6, 26, 0)
        \o <<sb1>> \o add \o mc(4, 26, 0, 4, 4, 22)

\* push, the loads of the two input shares and of the rtk pointer, packing
cipher_load ==
    << StrSp("r0", 0), StrSp("r1", 4),
       Ldr("r10", "r3", 0, 0), Ldr("r11", "r3", 8, 0),
       Ldr("r12", "r3", 4, 0), Ldr("r14", "r3", 12, 0),
       LdrSp("r1", 56),
       Ldr("r3", "r2", 8, 0), Ldr("r4", "r2", 4, 0),
       Ldr("r5", "r2", 12, 0), Ldr("r2", "r2", 0, 0),
       Movw("r6", 10, 10), Movt("r6", 10, 10),
       Movw("r7", 48, 48), Movt("r7", 48, 48) >>
    \o swpmv("r2", "r2", "r8", "r6", 3, 0) \o swpmv("r3", "r3", "r8", "r6", 3, 0)
    \o swpmv("r4", "r4", "r8", "r6", 3, 0) \o swpmv("r5", "r5", "r8", "r6", 3, 0)
    \o swpmv("r4", "r2", "r8", "r7", 2, 0) \o swpmv("r3", "r2", "r8", "r7", 4, 2)
    \o swpmv("r5", "r2", "r8", "r7", 6, 4) \o swpmv("r3", "r4", "r8", "r7", 2, 2)
    \o swpmv("r5", "r4", "r8", "r7", 4, 4) \o swpmv("r5", "r3", "r8", "r7", 2, 4)
    \o swpmv("r10", "r10", "r8", "r6", 3, 0) \o swpmv("r11", "r11", "r8", "r6", 3, 0)
    \o swpmv("r12", "r12", "r8", "r6", 3, 0) \o swpmv("r14", "r14", "r8", "r6", 3, 0)
    \o swpmv("r12", "r10", "r8", "r7", 2, 0) \o swpmv("r11", "r10", "r8", "r7", 4, 2)
    \o swpmv("r14", "r10", "r8", "r7", 6, 4) \o swpmv("r11", "r12", "r8", "r7", 2, 2)
    \o swpmv("r14", "r12", "r8", "r7", 4, 4) \o swpmv("r14", "r11", "r8", "r7", 2, 4)
    \o << Movw("r6", 85, 85), Movt("r6", 85, 85) >>

\* unpacking and the stores of the two output shares
cipher_store ==
    << Movw("r6", 10, 10), Movt("r6", 10, 10) >>
    \o swpmv("r5", "r3", "r8", "r7", 2, 4) \o swpmv("r5", "r4", "r8", "r7", 4, 4)
    \o swpmv("r3", "r4", "r8", "r7", 2, 2) \o swpmv("r5", "r2", "r8", "r7", 6, 4)
    \o swpmv("r3", "r2", "r8", "r7", 4, 2) \o swpmv("r4", "r2", "r8", "r7", 2, 0)
    \o swpmv("r5", "r5", "r8", "r6", 3, 0) \o swpmv("r4", "r4", "r8", "r6", 3, 0)
    \o swpmv("r3", "r3", "r8", "r6", 3, 0) \o swpmv("r2", "r2", "r8", "r6", 3, 0)
    \o swpmv("r14", "r11", "r8", "r7", 2, 4) \o swpmv("r14", "r12", "r8", "r7", 4, 4)
    \o swpmv("r11", "r12", "r8", "r7", 2, 2) \o swpmv("r14", "r10", "r8", "r7", 6, 4)
    \o swpmv("r11", "r10", "r8", "r7", 4, 2) \o swpmv("r12", "r10", "r8", "r7", 2, 0)
    \o swpmv("r14", "r14", "r8", "r6", 3, 0) \o swpmv("r12", "r12", "r8", "r6", 3, 0)
    \o swpmv("r11", "r11", "r8", "r6", 3, 0) \o swpmv("r10", "r10", "r8", "r6", 3, 0)
    \o << LdrSp("r1", 4), LdrSp("r0", 0),
          Str("r2", "r0", 0), Str("r4", "r0", 4), Str("r3", "r0", 8), Str("r5", "r0", 12),
          Str("r10", "r1", 0), Str("r12", "r1", 4), Str("r11", "r1", 8),
          Str("r14", "r1", 12) >>

\* the body of skinny128_384_plus_m: 4 + 4 + 2 quadruple rounds
skinny128_384_plus_m ==
    LET q == quadruple_round
    IN  << Mac("load", cipher_load) >>
        \o q \o q \o q \o q \o << Mac("dec_rtk1", dec_rtk1) >>
        \o q \o q \o q \o q \o << Mac("dec_rtk1", dec_rtk1) >>
        \o q \o q \o << Mac("store", cipher_store) >>

\* the registers and the stack at the entry of the function (AAPCS: c, c_m,
\* p, p_m in r0-r3, rtk, rtk_m, rtk1 on the stack above the 14 pushed words);
\* the other registers hold nothing the function may read
CipherRegs == {"r0", "r1", "r2", "r3", "r4", "r5", "r6", "r7", "r8", "r9", "r10", "r11",
               "r12", "r14"}
CipherEntry(sd) ==
    [sd  |-> sd,
     r   |-> [x \in CipherRegs |->
                 CASE x = "r0" -> Ptr("c", 0) [] x = "r1" -> Ptr("c_m", 0)
                   [] x = "r2" -> Ptr("p", 0) [] x = "r3" -> Ptr("p_m", 0)
                   [] OTHER -> None],
     sp  |-> [o \in {0, 4, 56, 60, 64} |->
                 CASE o = 56 -> Ptr("rtk", 0) [] o = 60 -> Ptr("rtk_m", 0)
                   [] o = 64 -> Ptr("rtk1", 0) [] OTHER -> None],
     out |-> <<>>,
     rd  |-> <<>>]

InitCipher ==
    /\ NoAeadCall
    /\ pc = "cipher" /\ cont = skinny128_384_plus_m
    /\ trace = <<>>
    /\ \E sd \in Seeds : pre = <<sd>> /\ regs = CipherEntry(sd)

\* the next macro of the function body; the trace keeps its loads and where
\* the rtk1 pointer at [sp, #64] stands after it
cipher_step ==
    /\ pc = "cipher"
    /\ LET m == WRun([regs EXCEPT !.rd = <<>>], Head(cont).code)
       IN  /\ regs' = m
           /\ Log(<< [mac |-> Head(cont).mac, rd |-> m.rd, rtk1 |-> m.sp[64].off] >>)
    /\ cont' = Tail(cont)
    /\ pc' = IF Tail(cont) = <<>> THEN "cipher_done" ELSE "cipher"
    /\ UNCHANGED pre
    /\ MacroFrame

NextCipher == cipher_step

SpecCipher == InitCipher /\ [][NextCipher]_vars

\* ------------------------------------------------------------------- C25
\* how many macros named mac the trace holds before entry i
MacsBefore(mac, i) == Cardinality({j \in 1..(i - 1) : trace[j].mac = mac})

\* the offsets entry e loaded from array arr, in program order
LoadsFrom(e, arr) ==
    LET s == SelectSeq(e.rd, LAMBDA x : x.arr = arr)
    IN  [j \in 1..Len(s) |-> s[j].off]

EntryWords(n) == <<16 * n, 16 * n + 4, 16 * n + 8, 16 * n + 12>>

\* C25: skinny128_384_plus_m executes exactly 40 rounds; round r (0-based)
\* adds the r-th 16-byte entry of rtk_23 and of rtk_3m and the (r mod 16)-th
\* entry of the rtk1 table; the rtk1 read pointer is wound back by 256 bytes
\* after rounds 15 and 31 and no load leaves the 256-byte table.
C25_RoundStructure ==
    pc \in {"cipher", "cipher_done"} =>
        /\ trace # <<>> =>
              LET i == Len(trace)
                  e == trace[i]
                  r == MacsBefore("rtk_123", i)
              IN  /\ \A n \in 1..Len(e.rd) :
                        e.rd[n].off >= 0 /\ e.rd[n].off + 4 <= ArrayBytes[e.rd[n].arr]
                  /\ e.mac = "rtk_123" =>
                        /\ r < SKINNY128_384_ROUNDS
                        /\ LoadsFrom(e, "rtk") = EntryWords(r)
                        /\ LoadsFrom(e, "rtk1") = EntryWords(r % TKPERMORDER)
                        /\ Len(e.rd) = 8
                        /\ trace[i - 1].mac = "sbox"
                        /\ trace[i - 1].rtk1 = 16 * (r % TKPERMORDER)
                        /\ e.rtk1 = trace[i - 1].rtk1 + 16
                  /\ e.mac = "rtk_3m" =>
                        /\ trace[i - 1].mac = "rtk_123"
                        /\ MacsBefore("rtk_3m", i) = r - 1
                        /\ {e.rd[n].off : n \in 1..Len(e.rd)}
                              = {EntryWords(r - 1)[n] : n \in 1..4}
                        /\ \A n \in 1..Len(e.rd) : e.rd[n].arr = "rtk_m"
                        /\ Len(e.rd) = 4
                  /\ e.mac = "dec_rtk1" =>
                        /\ r \in {16, 32}
                        /\ trace[i - 1].rtk1 = 256 /\ e.rtk1 = 0
                        /\ e.rd = <<>>
                  /\ e.mac \in {"sbox", "mixcol", "store"} =>
                        /\ e.rd = <<>>
                        /\ e.rtk1 = trace[i - 1].rtk1
                  /\ (e.mac = "sbox" /\ r \in {16, 32}) => trace[i - 1].mac = "dec_rtk1"
        /\ pc = "cipher_done" =>
              /\ MacsBefore("rtk_123", Len(trace) + 1) = 40
              /\ MacsBefore("rtk_3m", Len(trace) + 1) = 40
              /\ MacsBefore("sbox", Len(trace) + 1) = 40
              /\ MacsBefore("mixcol", Len(trace) + 1) = 80
              /\ MacsBefore("dec_rtk1", Len(trace) + 1) = 2

C25_Witness ==
    /\ pc = "cipher_done" /\ MacsBefore("rtk_123", Len(trace) + 1) = 40
    /\ \E i \in 1..Len(trace) :
          /\ trace[i].mac = "rtk_123" /\ MacsBefore("rtk_123", i) = 39
          /\ LoadsFrom(trace[i], "rtk1") = EntryWords(7)
          /\ LoadsFrom(trace[i], "rtk") = EntryWords(39)

\* ------------------------------------------------------------------- C26
\* the four state words of each share, word j of one facing word j of the other
Share1 == <<"r2", "r3", "r4", "r5">>
Share2 == <<"r10", "r11", "r12", "r14">>

C26_AddStep ==
    pc = "cipher" =>
        LET mac == Head(cont).mac
            r   == MacsBefore(mac, Len(trace) + 1)
            sd  == regs.sd
        IN  /\ mac = "rtk_123" =>
                  \A j \in 1..4 :
                     /\ regs'.r[Share1[j]] =
                           WXor(WXor(regs.r[Share1[j]], ArrayWord(sd, "rtk", 4 * r + j - 1)),
                                ArrayWord(sd, "rtk1", 4 * (r % TKPERMORDER) + j - 1))
                     /\ regs'.r[Share2[j]] = regs.r[Share2[j]]
            /\ mac = "rtk_3m" =>
                  /\ trace[Len(trace)].mac = "rtk_123"
                  /\ r = MacsBefore("rtk_123", Len(trace) + 1) - 1
                  /\ \A j \in 1..4 :
                        /\ regs'.r[Share2[j]] =
                              WXor(regs.r[Share2[j]], ArrayWord(sd, "rtk_m", 4 * r + j - 1))
                        /\ regs'.r[Share1[j]] = regs.r[Share1[j]]
            /\ mac \in {"sbox", "mixcol", "dec_rtk1", "store"} =>
                  trace'[Len(trace')].rd = <<>>

\* C26: in every round the rtk_23 entry and the rtk1 entry are XORed into the
\* first share's four state words only and the rtk_3m entry into the second
\* share's four state words only, word j of each entry going to state word j
\* in both shares; the XOR of the two shares thus receives
\* rtk1 XOR rtk_23 XOR rtk_3m exactly once per round.
C26_TweakeyAdditionPerShare == [][C26_AddStep]_vars

C26_Witness ==
    /\ pc = "cipher" /\ Head(cont).mac = "mixcol"
    /\ trace[Len(trace)].mac = "rtk_3m" /\ MacsBefore("rtk_3m", Len(trace) + 1) = 40
    /\ trace[Len(trace)].rd[2] = [arr |-> "rtk_m", off |-> 624, d |-> "r8"]

\* ------------------------------------------ the masked tweakey schedules
\* One call of a table routine: fn(dst, src...).  The routines are extern; a
\* table is kept as what its header comment says it holds: the tweakey
\* inputs the LFSR ran on, for how many rounds, how often the tweakey
\* permutation was applied to it and how often the round constants were added.
TkCall(fn, dst, src) == [fn |-> fn, dst |-> dst, src |-> src]

\* a masked schedule that adds the round constants to the mask table too
tk_schedule_123_calls_ConstantsTwice ==
    << TkCall("tks_perm_1", "rtk_1", <<"tk_1">>),
       TkCall("tks_lfsr_23", "rtk_23", <<"tk_2", "tk_3">>),
       TkCall("tks_perm_23", "rtk_23", <<>>),
       TkCall("tks_lfsr_3", "rtk_3m", <<"tk_3m">>),
       TkCall("tks_perm_23", "rtk_3m", <<>>) >>

\* Romulus-M: tk_schedule_23(rtk_23, rtk_3m, tk_2, tk_3, tk_3m)
tk_schedule_23_calls ==
    << TkCall("tks_lfsr_23", "rtk_23", <<"tk_2", "tk_3">>),
       TkCall("tks_perm_23", "rtk_23", <<>>),
       TkCall("tks_lfsr_3", "rtk_3m", <<"tk_3m">>),
       TkCall("tks_perm_23_norc", "rtk_3m", <<>>) >>

\* Romulus-M: tk_schedule_123(rtk_23, rtk_3m, rtk_1, tk_1, tk_2, tk_3, tk_3m)
tk_schedule_123_calls ==
    << TkCall("tks_perm_1", "rtk_1", <<"tk_1">>),
       TkCall("tks_lfsr_23", "rtk_23", <<"tk_2", "tk_3">>),
       TkCall("tks_perm_23", "rtk_23", <<>>),
       TkCall("tks_lfsr_3", "rtk_3m", <<"tk_3m">>),
       TkCall("tks_perm_23_norc", "rtk_3m", <<>>) >>

\* Romulus-T: tk_schedule_13_m(rtk_1, rtk_3, rtk_3m, tk_1, tk_3, tk_3m); the
\* first-share table rtk_3 is kept in rtk_23
tk_schedule_13_m_calls ==
    << TkCall("tks_perm_1", "rtk_1", <<"tk_1">>),
       TkCall("tks_lfsr_3", "rtk_23", <<"tk_3">>),
       TkCall("tks_perm_23", "rtk_23", <<>>),
       TkCall("tks_lfsr_3", "rtk_3m", <<"tk_3m">>),
       TkCall("tks_perm_23_norc", "rtk_3m", <<>>) >>

\* Romulus-T: tk_schedule_123_m(rtk_1, rtk_23, rtk_3m, tk_1, tk_2, tk_3, tk_3m)
tk_schedule_123_m_calls ==
    << TkCall("tks_perm_1", "rtk_1", <<"tk_1">>),
       TkCall("tks_lfsr_23", "rtk_23", <<"tk_2", "tk_3">>),
       TkCall("tks_perm_23", "rtk_23", <<>>),
       TkCall("tks_lfsr_3", "rtk_3m", <<"tk_3m">>),
       TkCall("tks_perm_23_norc", "rtk_3m", <<>>) >>

Schedules == {"tk_schedule_23", "tk_schedule_123", "tk_schedule_13_m", "tk_schedule_123_m"}
ScheduleCalls(f) ==
    CASE f = "tk_schedule_23"   -> tk_schedule_23_calls
      [] f = "tk_schedule_123"  -> tk_schedule_123_calls
      [] f = "tk_schedule_13_m" -> tk_schedule_13_m_calls
      [] OTHER                  -> tk_schedule_123_m_calls

\* the table dst after the call c on the tables tabs, with the arguments args
TableAfter(tabs, c, args) ==
    CASE c.fn = "tks_perm_1"  -> tks_perm_1(args[c.src[1]])
      [] c.fn = "tks_lfsr_23" ->
            [tk2 |-> args[c.src[1]], tk3 |-> args[c.src[2]],
             rounds |-> SKINNY128_384_ROUNDS, perm |-> 0, rc |-> 0]
      [] c.fn = "tks_lfsr_3" ->
            [tk2 |-> None, tk3 |-> args[c.src[1]],
             rounds |-> SKINNY128_384_ROUNDS, perm |-> 0, rc |-> 0]
      [] c.fn = "tks_perm_23" ->
            [tabs[c.dst] EXCEPT !.perm = @ + 1, !.rc = @ + 1]
      [] c.fn = "tks_perm_23_norc" ->
            [tabs[c.dst] EXCEPT !.perm = @ + 1]

\* a schedule entered with tk_1 = tk1, tk_2 = npub, tk_3 = k, tk_3m = k_m; the
\* destination tables are uninitialised locals of the caller
InitSched ==
    /\ NoAeadCallButKeys
    /\ variant \in Schedules /\ mode = ENCRYPT_MODE
    /\ \E sd \in Seeds, rs \in Seeds, ts \in Seeds :
          /\ pre = <<sd, rs, ts>>
          /\ npubs = NonceBytes(sd)
          /\ ks = SplitShares(KeyBytes(ts), RandomBytes(rs, 2))
    /\ npub = npubs /\ npub_m = Unset
    /\ k = shares_to_bytearr_2(ks).bytearr_0
    /\ k_m = shares_to_bytearr_2(ks).bytearr_1
    /\ pc = "sched" /\ cont = ScheduleCalls(variant)
    /\ trace = <<>> /\ regs = NoValue

SchedFrame == UNCHANGED <<variant, seed, mseed, tamper, replayed, prev_trace, enc_calls,
                          enc_cs, plain, aliased, pre, regs, argVars, outVars, bufVars,
                          keyVars, coreVars, adVars, msgVars, vtmp, calls>>

\* the next call of the schedule's body
sched_step ==
    /\ pc = "sched"
    /\ LET c    == Head(cont)
           tabs == [rtk_1 |-> rtk1, rtk_23 |-> rtk_23, rtk_3m |-> rtk_3m]
           args == [tk_1 |-> ZeroBlock, tk_2 |-> npub, tk_3 |-> k, tk_3m |-> k_m]
           t    == TableAfter(tabs, c, args)
       IN  /\ rtk1'   = IF c.dst = "rtk_1" THEN t ELSE rtk1
           /\ rtk_23' = IF c.dst = "rtk_23" THEN t ELSE rtk_23
           /\ rtk_3m' = IF c.dst = "rtk_3m" THEN t ELSE rtk_3m
           /\ Log(<<c>>)
    /\ cont' = Tail(cont)
    /\ pc' = IF Tail(cont) = <<>> THEN "sched_done" ELSE "sched"
    /\ SchedFrame

NextSched == sched_step

SpecSched == InitSched /\ [][NextSched]_vars

\* ------------------------------------------------------------------- C27
\* C27: every masked tweakey schedule (tk_schedule_23, tk_schedule_123 of
\* Romulus-M, tk_schedule_13_m, tk_schedule_123_m of Romulus-T) applies the
\* constant-adding tks_perm_23 to the first-share table only and the
\* constant-free tks_perm_23_norc to the TK3-mask table only and runs the same
\* 40-round LFSR3 on both key shares, so that the XOR of the two tables
\* contains each round constant exactly once.
C27_ConstantsAddedOnce ==
    pc \in {"sched", "sched_done"} =>
        /\ \A i \in 1..Len(trace) :
              /\ trace[i].fn = "tks_perm_23" => trace[i].dst = "rtk_23"
              /\ trace[i].fn = "tks_perm_23_norc" => trace[i].dst = "rtk_3m"
        /\ rtk_3m # NoTable => rtk_3m.rc = 0 /\ rtk_3m.tk2 = None
        /\ pc = "sched_done" =>
              /\ rtk_23.tk3 = k /\ rtk_3m.tk3 = k_m
              /\ rtk_23.rounds = SKINNY128_384_ROUNDS
              /\ rtk_3m.rounds = SKINNY128_384_ROUNDS
              /\ rtk_23.perm = 1 /\ rtk_3m.perm = 1
              /\ rtk_23.rc + rtk_3m.rc = 1
              /\ rtk_23.tk2 = (IF variant = "tk_schedule_13_m" THEN None ELSE npub)

C27_Witness ==
    /\ pc = "sched_done" /\ variant = "tk_schedule_13_m"
    /\ rtk_23.rc = 1 /\ rtk_3m.rc = 0 /\ rtk_23.tk3 # rtk_3m.tk3
    /\ Len(trace) = 5

\* ------------------------------ generate_shares_*: the public byte strings
\* the message / ciphertext and the AD are packed by the same code at four
\* places: which function, into which array
PackSites ==
    { [fn |-> "generate_shares_encrypt", arr |-> "ms"],
      [fn |-> "generate_shares_encrypt", arr |-> "ads"],
      [fn |-> "generate_shares_decrypt", arr |-> "cs"],
      [fn |-> "generate_shares_decrypt", arr |-> "ads"] }
PackLens == 0..(4 * MaxBlocks - 1)
\* the words ms[0] .. ms[len/4 + 1] the code may write
PackDomain(len) == 0..(len \div 4 + 1)
\* the destination array as the caller hands it over: every shares[0] is w
PriorShares(len, w) ==
    Mat([i \in PackDomain(len) |-> [shares |-> <<w, LoadWord(ZeroBlock, 0)>>]])
PackDest == CASE pre[1].arr = "ms" -> ms [] pre[1].arr = "cs" -> cs [] OTHER -> ads

\* the value ORed into ms[mlen/4].shares[0] by the loop over i < r
TailWord(m, len) ==
    Mat([n \in WBits |-> IF n \div 8 < len % 4
                         THEN (m[len - (len % 4) + (n \div 8)] \div Pow2(n % 8)) % 2
                         ELSE 0])

shares_to_bytearr(xs, len) ==
    Mat([i \in 0..(len - 1) |-> ByteOfWord(xs[i \div 4].shares[1], i % 4)])

InitPack ==
    /\ seed = 0 /\ mseed = 0 /\ tamper = None /\ replayed = FALSE
    /\ clen_out = NoValue /\ mlen_out = NoValue /\ ret = NoValue
    /\ state = Unset /\ state_m = Unset /\ tk1 = Unset
    /\ rtk_23 = NoTable /\ rtk_3m = NoTable /\ rtk1 = NoTable
    /\ a_off = 0 /\ a_len = 0 /\ m_off = 0 /\ m_len = 0
    /\ io_off = 0 /\ inlen = 0 /\ final_domain = 0 /\ vtmp = NoValue
    /\ calls = <<>> /\ prev_trace = <<>> /\ enc_calls = <<>> /\ enc_cs = Unset
    /\ plain = Unset /\ aliased = FALSE
    /\ npubs = Unset /\ ks = Unset
    /\ k = Unset /\ k_m = Unset /\ npub = Unset /\ npub_m = Unset
    /\ cont = <<>> /\ trace = <<>> /\ regs = NoValue
    /\ \E site \in PackSites, len \in PackLens, sd \in Seeds, w \in StaleWords :
          /\ pre = <<[fn |-> site.fn, arr |-> site.arr, len |-> len, prior |-> w,
                      bytes |-> IF site.arr = "ads" THEN AdBytes(sd, len)
                                ELSE MsgBytes(sd, len)]>>
          /\ variant = (IF site.fn = "generate_shares_encrypt" THEN "M" ELSE "T")
          /\ mode = (IF site.fn = "generate_shares_encrypt" THEN ENCRYPT_MODE
                     ELSE DECRYPT_MODE)
          /\ adlen = (IF site.arr = "ads" THEN len ELSE 0)
          /\ mlen = (IF site.arr = "ms" THEN len ELSE 0)
          /\ clen = (IF site.arr = "cs" THEN len ELSE 0)
          /\ ms = (IF site.arr = "ms" THEN PriorShares(len, w) ELSE Unset)
          /\ cs = (IF site.arr = "cs" THEN PriorShares(len, w) ELSE Unset)
          /\ ads = (IF site.arr = "ads" THEN PriorShares(len, w) ELSE Unset)
    /\ pc = "pack_words"

PackFrame == UNCHANGED <<variant, seed, mseed, tamper, replayed, prev_trace, enc_calls,
                         enc_cs, aliased, pre, regs, mode, adlen, mlen, clen, npubs, ks,
                         outVars, keyVars, tabVars, coreVars, adVars, msgVars, vtmp,
                         calls, cont>>

PackWrite(dst) ==
    /\ ms'  = IF pre[1].arr = "ms" THEN dst ELSE ms
    /\ cs'  = IF pre[1].arr = "cs" THEN dst ELSE cs
    /\ ads' = IF pre[1].arr = "ads" THEN dst ELSE ads

\* for(i = 0; i < mlen/4; i++): the four bytes of word i, least significant first
pack_words ==
    /\ pc = "pack_words"
    /\ LET len == pre[1].len
       IN  /\ PackWrite(Mat([i \in DOMAIN PackDest |->
                              IF i < len \div 4
                              THEN [PackDest[i] EXCEPT !.shares[1] = LoadWord(pre[1].bytes, i)]
                              ELSE PackDest[i]]))
           /\ pc' = IF len % 4 # 0 THEN "pack_clear" ELSE "unpack"
    /\ Log(<<"pack_words">>)
    /\ UNCHANGED plain /\ PackFrame

\* if (r) ms[mlen/4 + 1].shares[0] = 0x00000000;
pack_clear ==
    /\ pc = "pack_clear"
    /\ PackWrite([PackDest EXCEPT ![pre[1].len \div 4 + 1].shares[1] = LoadWord(ZeroBlock, 0)])
    /\ pc' = "pack_tail"
    /\ Log(<<"pack_clear">>)
    /\ UNCHANGED plain /\ PackFrame

\* for(i = 0; i < r; i++) ms[mlen/4].shares[0] |= m[mlen - r + i] << 8*i;
pack_tail ==
    /\ pc = "pack_tail"
    /\ PackWrite([PackDest EXCEPT ![pre[1].len \div 4].shares[1] =
                                       WOr(@, TailWord(pre[1].bytes, pre[1].len))])
    /\ pc' = "unpack"
    /\ Log(<<"pack_tail">>)
    /\ UNCHANGED plain /\ PackFrame

\* shares_to_bytearr(bytearr, ms, mlen) on the packed array
unpack ==
    /\ pc = "unpack"
    /\ plain' = shares_to_bytearr(PackDest, pre[1].len)
    /\ pc' = "pack_done"
    /\ Log(<<"unpack">>)
    /\ UNCHANGED <<ms, cs, ads>> /\ PackFrame

NextPack == pack_words \/ pack_clear \/ pack_tail \/ unpack

SpecPack == InitPack /\ [][NextPack]_vars

\* ------------------------------------------------------------------- C28
\* C28: for every length and every prior content of the destination array,
\* after generate_shares_encrypt / generate_shares_decrypt has packed a public
\* byte string, word i < len/4 holds bytes 4i..4i+3 little-endian, the last
\* incomplete word (when len mod 4 is not zero) holds the remaining bytes in
\* its low bytes with zeros above them, and shares_to_bytearr of the packed
\* array is the original byte string.
C28_PublicPacking ==
    pc = "pack_done" =>
        LET len == pre[1].len
            m   == pre[1].bytes
        IN  /\ \A i \in 0..(len \div 4 - 1), j \in 0..3 :
                  ByteOfWord(PackDest[i].shares[1], j) = m[4 * i + j]
            /\ len % 4 # 0 =>
                  \A j \in 0..3 :
                     ByteOfWord(PackDest[len \div 4].shares[1], j) =
                        (IF j < len % 4 THEN m[len - (len % 4) + j] ELSE 0)
            /\ plain = m

\* the same, for a destination array that held zeros before the call
C28_PublicPackingOfZeroedArray ==
    pre[1].prior = LoadWord(ZeroBlock, 0) => C28_PublicPacking

C28_StaleTailWord ==
    /\ pc = "pack_done" /\ pre[1].len % 4 # 0
    /\ pre[1].prior # LoadWord(ZeroBlock, 0)
    /\ plain # pre[1].bytes
    /\ ByteOfWord(PackDest[pre[1].len \div 4].shares[1], 3) # 0

\* ------------------------------------------------------------------- C29
\* C29: during one Romulus-N or Romulus-M encryption no two cipher
\* invocations use the same TK1 value, the pair (56-bit counter, domain
\* byte), the calls before and after the reset of the counter at the start
\* of the message phase included.
TweakOf(c) == <<Counter(c.tk1), c.tk1[7]>>
C29_TweakUniqueWithinCall ==
    (variant \in {"N", "M"} /\ mode = ENCRYPT_MODE) =>
        \A i \in 1..Len(calls), j \in 1..Len(calls) :
            i # j => TweakOf(calls[i]) # TweakOf(calls[j])

\* two calls of one encryption with the same counter, told apart by the domain
C29_Witness ==
    /\ variant \in {"N", "M"} /\ mode = ENCRYPT_MODE /\ ret # NoValue
    /\ adlen > BLOCKBYTES /\ mlen > BLOCKBYTES
    /\ \E i \in 1..Len(calls), j \in 1..Len(calls) :
          /\ calls[i].ph = "ad" /\ calls[j].ph = "msg"
          /\ Counter(calls[i].tk1) = Counter(calls[j].tk1)
          /\ Counter(calls[j].tk1) # InitialCounter

\* ------------------------------------------- UPDATE_CTR on any counter
\* bit n of the 56-bit counter in tk1 bytes 0..6
CtrBit(t, n) == (t[n \div 8] \div Pow2(n % 8)) % 2
CtrBits == 0..55
\* the counters a run starts from: one bit set, the bits around the byte,
\* word and counter boundaries among them, and all 56 bits set
CtrStartBits == {0, 6, 7, 8, 30, 31, 32, 54, 55}
CtrSteps == 2 * MaxBlocks
CtrDomains == {8, 26, 36}
CtrStart(p, sd) ==
    Mat([i \in Blk |-> IF i <= 6 THEN (IF p \in CtrBits
                                       THEN (IF i = p \div 8 THEN Pow2(p % 8) ELSE 0)
                                       ELSE 255)
                       ELSE IF i = 7 THEN 0
                       ELSE Data(sd, 7, BLOCKBYTES)[i]])

InitCtr ==
    /\ seed = 0 /\ mseed = 0 /\ tamper = None /\ replayed = FALSE
    /\ variant = "N" /\ mode = ENCRYPT_MODE
    /\ adlen = 0 /\ mlen = 0 /\ clen = 0
    /\ ads = Unset /\ ms = Unset /\ cs = Unset /\ npubs = Unset /\ ks = Unset
    /\ clen_out = NoValue /\ mlen_out = NoValue /\ ret = NoValue
    /\ state = Unset /\ state_m = Unset
    /\ rtk_23 = NoTable /\ rtk_3m = NoTable /\ rtk1 = NoTable
    /\ a_off = 0 /\ a_len = 0 /\ m_off = 0 /\ m_len = 0
    /\ io_off = 0 /\ inlen = 0 /\ final_domain = 0 /\ vtmp = NoValue
    /\ calls = <<>> /\ prev_trace = <<>> /\ enc_calls = <<>> /\ enc_cs = Unset
    /\ plain = Unset /\ aliased = FALSE
    /\ k = Unset /\ k_m = Unset /\ npub = Unset /\ npub_m = Unset
    /\ cont = <<>> /\ trace = <<>> /\ regs = NoValue
    /\ \E p \in CtrStartBits \cup {56}, sd \in Seeds :
          /\ tk1 = CtrStart(p, sd)
          /\ pre = <<tk1>>
    /\ pc = "ctr_set"

CtrFrame == UNCHANGED <<sessVars, argVars, outVars, bufVars, keyVars, tabVars, state,
                        state_m, adVars, msgVars, vtmp, calls, cont>>

\* SET_DOMAIN(tk1, d) before the counter advances
ctr_set ==
    /\ pc = "ctr_set"
    /\ \E d \in CtrDomains : tk1' = SET_DOMAIN(tk1, d)
    /\ pc' = "ctr_update"
    /\ UNCHANGED trace /\ CtrFrame

\* UPDATE_CTR(tk1); trace keeps the tk1 each advance started from
ctr_update ==
    /\ pc = "ctr_update"
    /\ tk1' = UPDATE_CTR(tk1)
    /\ trace' = Append(trace, tk1)
    /\ pc' = IF Len(trace) + 1 >= CtrSteps THEN "ctr_done" ELSE "ctr_update"
    /\ CtrFrame

NextCtr == ctr_set \/ ctr_update

SpecCtr == InitCtr /\ [][NextCtr]_vars

\* ------------------------------------------------------------------- C30
\* C30: UPDATE_CTR changes only the 56-bit counter in tk1 bytes 0..6: the
\* domain byte tk1[7] and bytes 8..15 are left as they were, the new counter
\* is the old one shifted left by one bit with 0x95 XORed into byte 0 exactly
\* when bit 55 of the old one was set, and a non-zero counter does not
\* become zero.
FeedbackBits == {0, 2, 4, 7}
C30_CtrStep ==
    pc = "ctr_update" =>
        /\ \A i \in 7..15 : tk1'[i] = tk1[i]
        /\ \A n \in CtrBits :
              CtrBit(tk1', n) =
                 ((IF n = 0 THEN 0 ELSE CtrBit(tk1, n - 1))
                  + (IF CtrBit(tk1, 55) = 1 /\ n \in FeedbackBits THEN 1 ELSE 0)) % 2
        /\ (\E n \in CtrBits : CtrBit(tk1, n) = 1) =>
              (\E n \in CtrBits : CtrBit(tk1', n) = 1)
C30_UpdateCtrFrame == [][C30_CtrStep]_vars

\* an advance with bit 55 set has happened under a domain set before it
C30_Witness ==
    /\ pc = "ctr_done" /\ tk1[7] = 26
    /\ \E i \in 1..Len(trace) :
          /\ CtrBit(trace[i], 55) = 1 /\ CtrBit(trace[i], 54) = 0
          /\ trace[i][7] = 26
          /\ i < Len(trace) /\ CtrBit(trace[i + 1], 0) = 1 /\ CtrBit(trace[i + 1], 7) = 1
    /\ \E i \in 8..15 : tk1[i] # 0
====
